---- MODULE Spec2Model ----
(***************************************************************************)
(* State-machine model of contracts/ConfidentialBanking.sol: the          *)
(* confidential ledger (deposit / transfer / withdraw / withdrawCallback)  *)
(* and the red-packet engine (create / claim / reclaim).                   *)
(*                                                                         *)
(* An euint64 ciphertext handle is modelled by the plaintext it decrypts   *)
(* to; the never-written handle (bytes32(0)) is Uninitialized.  Amounts    *)
(* are scaled so that TLC can enumerate them: the encrypted width is       *)
(* Width bits instead of 64, and the wei constants keep the order they     *)
(* have in the contract:                                                   *)
(*   MIN_DEPOSIT = MIN_WITHDRAW < MAX_WITHDRAW < 2^Width < MAX_DEPOSIT     *)
(*   (0.001 ether = 0.001 ether < 10 ether < 2^64 wei < 100 ether).        *)
(* Time is counted in units of RED_PACKET_EXPIRE_TIME (7 days).            *)
(* A reverted call changes nothing but `last`, which records the name,     *)
(* the outcome ("ok" or the revert reason) and the branch taken by the     *)
(* most recent call.                                                       *)
(***************************************************************************)
EXTENDS Integers, Sequences, FiniteSets, TLC

\* ---------------------------------------------------------------- constants
Width == 2
MIN_DEPOSIT == 1
MAX_DEPOSIT == 5
MIN_WITHDRAW == 1
MAX_WITHDRAW == 2
RED_PACKET_EXPIRE_TIME == 1
MAX_MESSAGE_LENGTH == 100
\* ConfidentialMessaging; the page size is scaled from 50 to 2 so that a few
\* messages fill several pages.
MESSAGES_PER_PAGE == 2
MAX_CHUNKS == 64
MAX_QUERY_LIMIT == 100
DEFAULT_QUERY_LIMIT == 10
\* Message codec; a chunk is scaled from 8 bytes to 3 and the safe-integer
\* limit from 2^53 - 1 to 2^20 - 1, so that a full chunk of text exceeds it.
\* The integers of the bitwise operators are scaled from 32 bits to 16: they
\* hold fewer bytes than a chunk and fewer bits than a safe integer.
CHUNK_SIZE == 3
BYTE_RANGE == 256
INT_BITS == 16
MAX_SAFE_INTEGER == 1048575
REPLACEMENT_CHARACTER == 65533
SPACE == 32
LETTER_A == 97
LETTER_E_ACUTE == 233
LETTER_H == 104
LETTER_I == 105
\* Client caches; the capacities are scaled from 2000 and 1000 entries to 2
\* and 1, and the times to live are 10 and 5 minutes in units of 5 minutes.
ENCRYPTION_MAX_SIZE == 2
ENCRYPTION_TTL == 2
DECRYPTION_MAX_SIZE == 1
DECRYPTION_TTL == 1

\* ------------------------------------------------------------------- bounds
MaxPool == 5
MaxRequests == 2
MaxPackets == 1
MaxTime == 2
MaxMessages == 2
MaxIndexed == 5
MaxChars == 4
MaxClock == 2
MaxDepth == 2
MaxSends == 3
MaxHandles == 3

Users == {"alice", "bob"}
ZeroAddress == "0x0"
Owner == "owner"
\* The accounts of the message store: the two above and a third party.
Accounts == Users \cup {"carol"}

Modulus == 2 ^ Width
Amounts == 0 .. (Modulus - 1)

\* ------------------------------------------------------- encrypted integers
Uninitialized == -1

isInitialized(h) == h # Uninitialized

\* The plaintext behind a handle; the library substitutes a trivial
\* encryption of 0 for an uninitialized operand.
Plain(h) == IF isInitialized(h) THEN h ELSE 0

uint64(x) == x % Modulus

FHE_add(a, b) == (Plain(a) + Plain(b)) % Modulus

FHE_sub(a, b) == (Plain(a) - Plain(b)) % Modulus

FHE_ge(a, b) == Plain(a) >= Plain(b)

FHE_select(c, a, b) == IF c THEN a ELSE b

\* -------------------------------------------------------------------- state
VARIABLES
  balances,                     \* mapping(address => euint64)
  withdrawRequests,             \* WithdrawRequest[]
  userWithdrawIds,              \* mapping(address => uint256[])
  decryptionToWithdrawRequest,  \* mapping(uint256 => uint256), explicit keys
  redPackets,                   \* RedPacket[]
  userRedPacketIds,             \* mapping(address => uint32[])
  redPacketCounter,             \* uint32
  encryptedZeroInitialized,     \* bool
  paused,                       \* Pausable
  pool,                         \* address(this).balance
  now,                          \* block.timestamp
  requestedHandles,             \* decryption oracle: requestID -> plaintext
  completed,                    \* log of WithdrawCompleted, with the callback's id
  packetEvents,                 \* per packet: RedPacketClaimed/Expired emitted
  balanceAllowed,               \* ACL of the handle stored in balances[u]
  packetAllowed,                \* ACL of the handle stored in redPackets[i].amount
  callStack,                    \* open withdrawCallback frames awaiting their value call
  messages,                     \* ConfidentialMessaging: Message[]
  userMessagePages,             \* mapping(address => mapping(uint32 => uint32[]))
  userPageCount,                \* mapping(address => uint32)
  userCurrentPageSize,          \* mapping(address => uint32)
  messageAccess,                \* mapping(uint32 => mapping(address => bool))
  userStats,                    \* mapping(address => UserStats)
  messagingPaused,              \* Pausable of ConfidentialMessaging
  plainMessage,                 \* client: the text handed to encryptMessageOptimized
  chunkValues,                  \* client: the chunk values it packed
  decoded,                      \* client: the text, or the bytes, a decoder produced
  clock,                        \* client: Date.now(), in units of five minutes
  handleCount,                  \* client: ciphertext handles produced so far
  encryptionCache,              \* client: fheEncryptionCache.cache, a Map
  decryptionCache,              \* client: fheDecryptionCache.cache, a Map
  encrypted,                    \* client: what encryptMessageOptimized returned
  decrypted,                    \* client: what decryptChunksToMessage returned
  handleStrings,                \* client: its handleStrings array after the call
  tempMessages,                 \* client: useMessages' tempMessages, TempMessage[]
  calls,                        \* client: the send and retry calls made, by promise state
  latestOnChain,                \* timestamp of the account's latest message on chain, 0: none
  last                          \* name, outcome and branch of the last call

ledgerVars == <<balances, withdrawRequests, userWithdrawIds,
                decryptionToWithdrawRequest, redPackets, userRedPacketIds,
                redPacketCounter, encryptedZeroInitialized, paused, pool, now,
                requestedHandles, completed, packetEvents,
                balanceAllowed, packetAllowed, callStack>>

messagingVars == <<messages, userMessagePages, userPageCount,
                   userCurrentPageSize, messageAccess, userStats,
                   messagingPaused>>

cacheVars == <<clock, handleCount, encryptionCache, decryptionCache, encrypted, decrypted,
               handleStrings>>

sendVars == <<tempMessages, calls, latestOnChain>>

codecVars == <<plainMessage, chunkValues, decoded, cacheVars, sendVars>>

vars == <<ledgerVars, messagingVars, codecVars, last>>

Outcome(op, status, tag) == [op |-> op, status |-> status, tag |-> tag]

\* A reverted transaction: every storage write and value transfer is undone.
Revert(op, reason) ==
  /\ last' = Outcome(op, reason, "-")
  /\ UNCHANGED <<ledgerVars, messagingVars, codecVars>>

\* 0-based array access
At(arr, i) == arr[i + 1]

\* A Solidity mapping, kept with the set of keys that were written and not
\* deleted; reading any other key yields the default value 0.
EmptyMapping == [k \in {} |-> 0]

Lookup(m, k) == IF k \in DOMAIN m THEN m[k] ELSE 0

Store(m, k, v) == [x \in DOMAIN m \cup {k} |-> IF x = k THEN v ELSE m[x]]

Delete(m, k) == [x \in DOMAIN m \ {k} |-> m[x]]

\* ------------------------------------------------------------ access grants
\* The ACL keeps, per ciphertext handle, the accounts allowed to use and
\* decrypt it.  A handle produced by an FHE operation starts with no
\* persistent grant; grants are only ever added.
This == "this"

NoGrants == {}

FHE_allow(grants, account) == grants \cup {account}

\* FHE.allowThis leaving the ledger without a grant.
FHE_allowThis_omitted(grants) == grants

FHE_allowThis(grants) == grants \cup {This}

\* The grants every balance write issues on the new balance handle.
allowBalance(grants, owner) == FHE_allowThis(FHE_allow(grants, owner))

BankingInit ==
  /\ balances = [u \in Users |-> Uninitialized]
  /\ withdrawRequests = <<>>
  /\ userWithdrawIds = [u \in Users |-> <<>>]
  /\ decryptionToWithdrawRequest = EmptyMapping
  /\ redPackets = <<>>
  /\ userRedPacketIds = [u \in Users |-> <<>>]
  /\ redPacketCounter = 0
  /\ encryptedZeroInitialized = FALSE
  /\ paused = FALSE
  /\ pool = 0
  /\ now = 0
  /\ requestedHandles = EmptyMapping
  /\ completed = <<>>
  /\ packetEvents = <<>>
  /\ balanceAllowed = [u \in Users |-> NoGrants]
  /\ packetAllowed = <<>>
  /\ callStack = <<>>

\* ------------------------------------------------------------------ deposit
depositCheck(sender, value) ==
  IF paused THEN "EnforcedPause"
  ELSE IF ~(value >= MIN_DEPOSIT /\ value <= MAX_DEPOSIT) THEN "Invalid deposit amount"
  ELSE "ok"

depositAmount(value) == uint64(value)

depositNewBalance(currentBalance, value) ==
  IF isInitialized(currentBalance)
  THEN FHE_add(currentBalance, depositAmount(value))
  ELSE depositAmount(value)

deposit(sender, value) ==
  IF depositCheck(sender, value) # "ok"
  THEN Revert("deposit", depositCheck(sender, value))
  ELSE /\ pool + value <= MaxPool
       /\ balances' = [balances EXCEPT
                         ![sender] = depositNewBalance(balances[sender], value)]
       /\ balanceAllowed' = [balanceAllowed EXCEPT
                               ![sender] = allowBalance(NoGrants, sender)]
       /\ pool' = pool + value
       /\ last' = Outcome("deposit", "ok",
                          IF isInitialized(balances[sender]) THEN "add" ELSE "first")
       /\ UNCHANGED <<messagingVars, codecVars, callStack, packetAllowed,
                      withdrawRequests, userWithdrawIds,
                      decryptionToWithdrawRequest, redPackets,
                      userRedPacketIds, redPacketCounter,
                      encryptedZeroInitialized, paused, now,
                      requestedHandles, completed, packetEvents>>

DepositBy(accounts) ==
  \E sender \in accounts, value \in 0 .. (MAX_DEPOSIT + 1) : deposit(sender, value)

\* transferCheck without the self-transfer half of the recipient test.
transferCheck_selfAllowed(sender, to, inputOk) ==
  IF paused THEN "EnforcedPause"
  ELSE IF ~(to # ZeroAddress) THEN "Invalid recipient"
  ELSE IF ~inputOk THEN "Unauthorized access to encrypted amount"
  ELSE "ok"


\* ----------------------------------------------------------------- transfer
\* inputOk: FHE.fromExternal accepts the caller's proof for the encrypted
\* amount and FHE.isSenderAllowed holds for the resulting handle.
transferCheck(sender, to, inputOk) ==
  IF paused THEN "EnforcedPause"
  ELSE IF ~(to # ZeroAddress /\ to # sender) THEN "Invalid recipient"
  ELSE IF ~inputOk THEN "Unauthorized access to encrypted amount"
  ELSE "ok"

\* The requested amount taken without the balance comparison.
actualTransferAmount_unchecked(senderBalance, amount) == amount

actualTransferAmount(senderBalance, amount) ==
  FHE_select(FHE_ge(senderBalance, amount), amount, 0)

newSenderBalance(senderBalance, amount) ==
  FHE_sub(senderBalance, actualTransferAmount(senderBalance, amount))

newRecipientBalance(senderBalance, recipientBalance, amount) ==
  FHE_select(isInitialized(recipientBalance),
             FHE_add(recipientBalance, actualTransferAmount(senderBalance, amount)),
             actualTransferAmount(senderBalance, amount))

transfer(sender, to, amount, inputOk) ==
  IF transferCheck(sender, to, inputOk) # "ok"
  THEN Revert("transfer", transferCheck(sender, to, inputOk))
  ELSE /\ balances' =
            [balances EXCEPT
               ![sender] = newSenderBalance(balances[sender], amount),
               ![to] = newRecipientBalance(balances[sender], balances[to], amount)]
       /\ balanceAllowed' =
            [balanceAllowed EXCEPT ![sender] = allowBalance(NoGrants, sender),
                                   ![to] = allowBalance(NoGrants, to)]
       /\ encryptedZeroInitialized' = TRUE
       /\ last' = Outcome("transfer", "ok",
                          IF FHE_ge(balances[sender], amount)
                          THEN "moved" ELSE "insufficient")
       /\ UNCHANGED <<messagingVars, codecVars, callStack, packetAllowed,
                      withdrawRequests, userWithdrawIds,
                      decryptionToWithdrawRequest, redPackets,
                      userRedPacketIds, redPacketCounter, paused, pool, now,
                      requestedHandles, completed, packetEvents>>

Transfer ==
  \E sender \in Users, to \in Users \cup {ZeroAddress}, amount \in Amounts,
     inputOk \in BOOLEAN : transfer(sender, to, amount, inputOk)

\* ----------------------------------------------------------------- withdraw
withdrawCheck(sender, inputOk) ==
  IF paused THEN "EnforcedPause"
  ELSE IF ~inputOk THEN "Unauthorized access to encrypted amount"
  ELSE "ok"

\* The withdrawn amount taken as requested, whatever the balance.
actualWithdrawAmount_unchecked(currentBalance, amount) == amount


actualWithdrawAmount(currentBalance, amount) ==
  FHE_select(FHE_ge(currentBalance, amount), amount, 0)

\* FHE.requestDecryption numbers the requests of this contract 0, 1, 2, ...
\* and keeps the handles of each request for the later signature check.
requestDecryption == Cardinality(DOMAIN requestedHandles)

withdraw(sender, amount, inputOk) ==
  /\ Len(withdrawRequests) < MaxRequests
  /\ IF withdrawCheck(sender, inputOk) # "ok"
     THEN Revert("withdraw", withdrawCheck(sender, inputOk))
     ELSE LET currentBalance == balances[sender]
              actual == actualWithdrawAmount(currentBalance, amount)
              requestId == Len(withdrawRequests)
              decryptionRequestId == requestDecryption
          IN /\ balances' = [balances EXCEPT ![sender] = FHE_sub(currentBalance, actual)]
             /\ balanceAllowed' = [balanceAllowed EXCEPT
                                     ![sender] = allowBalance(NoGrants, sender)]
             /\ encryptedZeroInitialized' = TRUE
             /\ withdrawRequests' = Append(withdrawRequests,
                  [id |-> requestId, user |-> sender, amount |-> actual,
                   timestamp |-> now, processed |-> FALSE])
             /\ userWithdrawIds' =
                  [userWithdrawIds EXCEPT ![sender] = Append(@, requestId)]
             /\ requestedHandles' = Store(requestedHandles, decryptionRequestId, actual)
             /\ decryptionToWithdrawRequest' =
                  Store(decryptionToWithdrawRequest, decryptionRequestId, requestId)
             /\ last' = Outcome("withdraw", "ok",
                                IF FHE_ge(currentBalance, amount)
                                THEN "moved" ELSE "insufficient")
             /\ UNCHANGED <<messagingVars, codecVars, callStack, packetAllowed,
                            redPackets, userRedPacketIds, redPacketCounter,
                            paused, pool, now, completed, packetEvents>>

Withdraw ==
  \E sender \in Users, amount \in Amounts, inputOk \in BOOLEAN :
     withdraw(sender, amount, inputOk)

\* --------------------------------------------------------- withdrawCallback
\* FHE.checkSignatures: the KMS signs only the true plaintext of the handles
\* it was asked to decrypt under that request id.  signedByKMS says whether
\* the caller presents genuine KMS signatures.
checkSignatures(decryptionRequestId, decryptedAmount, signedByKMS) ==
  /\ signedByKMS
  /\ decryptionRequestId \in DOMAIN requestedHandles
  /\ requestedHandles[decryptionRequestId] = decryptedAmount

\* withdrawCallbackCheck with the upper end of the amount range excluded.
withdrawCallbackCheck_exclusiveMax(decryptionRequestId, decryptedAmount, signedByKMS, payeeAccepts) ==
  LET withdrawRequestId == Lookup(decryptionToWithdrawRequest, decryptionRequestId)
  IN IF ~checkSignatures(decryptionRequestId, decryptedAmount, signedByKMS)
     THEN "InvalidKMSSignatures"
     ELSE IF ~(withdrawRequestId < Len(withdrawRequests))
     THEN "Invalid withdraw request"
     ELSE IF At(withdrawRequests, withdrawRequestId).processed
     THEN "Already processed"
     ELSE IF ~(decryptedAmount >= MIN_WITHDRAW /\ decryptedAmount < MAX_WITHDRAW)
     THEN "Invalid amount"
     ELSE IF ~(pool >= decryptedAmount)
     THEN "Insufficient contract balance"
     ELSE IF ~payeeAccepts
     THEN "Transfer failed"
     ELSE "ok"


\* payeeAccepts is the result of the low-level value call to request.user.
withdrawCallbackCheck(decryptionRequestId, decryptedAmount, signedByKMS, payeeAccepts) ==
  LET withdrawRequestId == Lookup(decryptionToWithdrawRequest, decryptionRequestId)
  IN IF ~checkSignatures(decryptionRequestId, decryptedAmount, signedByKMS)
     THEN "InvalidKMSSignatures"
     ELSE IF ~(withdrawRequestId < Len(withdrawRequests))
     THEN "Invalid withdraw request"
     ELSE IF At(withdrawRequests, withdrawRequestId).processed
     THEN "Already processed"
     ELSE IF ~(decryptedAmount >= MIN_WITHDRAW /\ decryptedAmount <= MAX_WITHDRAW)
     THEN "Invalid amount"
     ELSE IF ~(pool >= decryptedAmount)
     THEN "Insufficient contract balance"
     ELSE IF ~payeeAccepts
     THEN "Transfer failed"
     ELSE "ok"

\* withdrawCallback with the result of the value call ignored: a refused
\* payout keeps the flag flip and the map deletion.
withdrawCallback_ignoreSuccess(decryptionRequestId, decryptedAmount, signedByKMS, payeeAccepts) ==
  LET status == withdrawCallbackCheck(decryptionRequestId, decryptedAmount,
                                      signedByKMS, TRUE)
      withdrawRequestId == Lookup(decryptionToWithdrawRequest, decryptionRequestId)
  IN IF status # "ok"
     THEN Revert("withdrawCallback", status)
     ELSE /\ withdrawRequests' =
               [withdrawRequests EXCEPT ![withdrawRequestId + 1].processed = TRUE]
          /\ decryptionToWithdrawRequest' =
               Delete(decryptionToWithdrawRequest, decryptionRequestId)
          /\ pool' = IF payeeAccepts THEN pool - decryptedAmount ELSE pool
          /\ completed' = IF payeeAccepts
                          THEN Append(completed,
                                 [decryptionRequestId |-> decryptionRequestId,
                                  requestId |-> withdrawRequestId,
                                  user |-> At(withdrawRequests, withdrawRequestId).user,
                                  amount |-> decryptedAmount])
                          ELSE completed
          /\ last' = Outcome("withdrawCallback",
                             IF payeeAccepts THEN "ok" ELSE "Transfer failed", "-")
          /\ UNCHANGED <<messagingVars, codecVars, callStack, balanceAllowed, packetAllowed,
                         balances, userWithdrawIds, redPackets,
                         userRedPacketIds, redPacketCounter,
                         encryptedZeroInitialized, paused, now,
                         requestedHandles, packetEvents>>

withdrawCallback(decryptionRequestId, decryptedAmount, signedByKMS, payeeAccepts) ==
  LET status == withdrawCallbackCheck(decryptionRequestId, decryptedAmount,
                                      signedByKMS, payeeAccepts)
      withdrawRequestId == Lookup(decryptionToWithdrawRequest, decryptionRequestId)
  IN IF status # "ok"
     THEN Revert("withdrawCallback", status)
     ELSE /\ withdrawRequests' =
               [withdrawRequests EXCEPT ![withdrawRequestId + 1].processed = TRUE]
          /\ decryptionToWithdrawRequest' =
               Delete(decryptionToWithdrawRequest, decryptionRequestId)
          /\ pool' = pool - decryptedAmount
          /\ completed' = Append(completed,
               [decryptionRequestId |-> decryptionRequestId,
                requestId |-> withdrawRequestId,
                user |-> At(withdrawRequests, withdrawRequestId).user,
                amount |-> decryptedAmount])
          /\ last' = Outcome("withdrawCallback", "ok", "-")
          /\ UNCHANGED <<messagingVars, codecVars, callStack, balanceAllowed, packetAllowed,
                         balances, userWithdrawIds, redPackets,
                         userRedPacketIds, redPacketCounter,
                         encryptedZeroInitialized, paused, now,
                         requestedHandles, packetEvents>>

\* The value call of line 189 opened up.  withdrawCallback carries no
\* nonReentrant modifier, so while request.user's code runs it may call back
\* into the contract; the frame keeps what a revert of the outer call restores.
Snapshot ==
  [balances |-> balances, withdrawRequests |-> withdrawRequests,
   userWithdrawIds |-> userWithdrawIds,
   decryptionToWithdrawRequest |-> decryptionToWithdrawRequest,
   encryptedZeroInitialized |-> encryptedZeroInitialized, pool |-> pool,
   requestedHandles |-> requestedHandles, completed |-> completed,
   balanceAllowed |-> balanceAllowed]

\* request.processed = true with the assignment left out.
setProcessed_skipped(requests, withdrawRequestId) == requests

\* request.processed = true (line 186)
setProcessed(requests, withdrawRequestId) ==
  [requests EXCEPT ![withdrawRequestId + 1].processed = TRUE]

\* Lines 176-189 up to the moment the payee's code starts to run: the checks,
\* the flag flip, the map deletion, and the value on its way to request.user.
withdrawCallbackEnter(decryptionRequestId, decryptedAmount, signedByKMS) ==
  LET status == withdrawCallbackCheck(decryptionRequestId, decryptedAmount,
                                      signedByKMS, TRUE)
      withdrawRequestId == Lookup(decryptionToWithdrawRequest, decryptionRequestId)
  IN /\ Len(callStack) < MaxDepth
     /\ IF status # "ok"
        THEN Revert("withdrawCallback", status)
        ELSE /\ withdrawRequests' = setProcessed(withdrawRequests, withdrawRequestId)
             /\ decryptionToWithdrawRequest' =
                  Delete(decryptionToWithdrawRequest, decryptionRequestId)
             /\ pool' = pool - decryptedAmount
             /\ callStack' = Append(callStack,
                  [decryptionRequestId |-> decryptionRequestId,
                   requestId |-> withdrawRequestId,
                   user |-> At(withdrawRequests, withdrawRequestId).user,
                   amount |-> decryptedAmount,
                   saved |-> Snapshot])
             /\ last' = Outcome("withdrawCallback", "calling", "-")
             /\ UNCHANGED <<messagingVars, codecVars, balanceAllowed, packetAllowed,
                            balances, userWithdrawIds, redPackets,
                            userRedPacketIds, redPacketCounter,
                            encryptedZeroInitialized, paused, now,
                            requestedHandles, completed, packetEvents>>

\* The innermost value call returns (lines 189-192).  On success the event is
\* emitted; on failure require(success) reverts the frame's transaction with
\* everything done since it was entered, nested calls included.
withdrawCallbackReturn(success) ==
  /\ callStack # <<>>
  /\ LET frame == callStack[Len(callStack)]
     IN /\ callStack' = SubSeq(callStack, 1, Len(callStack) - 1)
        /\ IF success
           THEN /\ completed' = Append(completed,
                     [decryptionRequestId |-> frame.decryptionRequestId,
                      requestId |-> frame.requestId,
                      user |-> frame.user,
                      amount |-> frame.amount])
                /\ last' = Outcome("withdrawCallback", "ok", "-")
                /\ UNCHANGED <<balances, withdrawRequests, userWithdrawIds,
                               decryptionToWithdrawRequest,
                               encryptedZeroInitialized, pool,
                               requestedHandles, balanceAllowed>>
           ELSE /\ balances' = frame.saved.balances
                /\ withdrawRequests' = frame.saved.withdrawRequests
                /\ userWithdrawIds' = frame.saved.userWithdrawIds
                /\ decryptionToWithdrawRequest' = frame.saved.decryptionToWithdrawRequest
                /\ encryptedZeroInitialized' = frame.saved.encryptedZeroInitialized
                /\ pool' = frame.saved.pool
                /\ requestedHandles' = frame.saved.requestedHandles
                /\ completed' = frame.saved.completed
                /\ balanceAllowed' = frame.saved.balanceAllowed
                /\ last' = Outcome("withdrawCallback", "Transfer failed", "-")
        /\ UNCHANGED <<messagingVars, codecVars, packetAllowed, redPackets,
                       userRedPacketIds, redPacketCounter, paused, now,
                       packetEvents>>

\* Who can call: any account between transactions, and only the payee whose
\* code is running while a value call is open.
Callers == IF callStack = <<>> THEN Users ELSE {callStack[Len(callStack)].user}


CorrelationIds == 0 .. MaxRequests

WithdrawCallback ==
  \E decryptionRequestId \in CorrelationIds, decryptedAmount \in Amounts,
     signedByKMS \in BOOLEAN, payeeAccepts \in BOOLEAN :
     withdrawCallback(decryptionRequestId, decryptedAmount, signedByKMS, payeeAccepts)

\* -------------------------------------------------------- owner operations
emergencyWithdrawCheck(sender, ownerAccepts) ==
  IF sender # Owner THEN "OwnableUnauthorizedAccount"
  ELSE IF ~(pool > 0) THEN "No balance to withdraw"
  ELSE IF ~ownerAccepts THEN "Emergency withdraw failed"
  ELSE "ok"

emergencyWithdraw(sender, ownerAccepts) ==
  IF emergencyWithdrawCheck(sender, ownerAccepts) # "ok"
  THEN Revert("emergencyWithdraw", emergencyWithdrawCheck(sender, ownerAccepts))
  ELSE /\ pool' = 0
       /\ last' = Outcome("emergencyWithdraw", "ok", "-")
       /\ UNCHANGED <<messagingVars, codecVars, callStack, balanceAllowed, packetAllowed,
                      balances, withdrawRequests, userWithdrawIds,
                      decryptionToWithdrawRequest, redPackets, userRedPacketIds,
                      redPacketCounter, encryptedZeroInitialized, paused, now,
                      requestedHandles, completed, packetEvents>>

EmergencyWithdraw ==
  \E sender \in Users \cup {Owner}, ownerAccepts \in BOOLEAN :
     emergencyWithdraw(sender, ownerAccepts)

receive(value) ==
  /\ pool + value <= MaxPool
  /\ pool' = pool + value
  /\ last' = Outcome("receive", "ok", "-")
  /\ UNCHANGED <<messagingVars, codecVars, callStack, balanceAllowed, packetAllowed,
                 balances, withdrawRequests, userWithdrawIds,
                 decryptionToWithdrawRequest, redPackets, userRedPacketIds,
                 redPacketCounter, encryptedZeroInitialized, paused, now,
                 requestedHandles, completed, packetEvents>>

Receive == \E value \in 1 .. MaxPool : receive(value)

pause(sender) ==
  IF sender # Owner THEN Revert("pause", "OwnableUnauthorizedAccount")
  ELSE IF paused THEN Revert("pause", "EnforcedPause")
  ELSE /\ paused' = TRUE
       /\ last' = Outcome("pause", "ok", "-")
       /\ UNCHANGED <<messagingVars, codecVars, callStack, balanceAllowed, packetAllowed,
                      balances, withdrawRequests, userWithdrawIds,
                      decryptionToWithdrawRequest, redPackets, userRedPacketIds,
                      redPacketCounter, encryptedZeroInitialized, pool, now,
                      requestedHandles, completed, packetEvents>>

Pause == \E sender \in Users \cup {Owner} : pause(sender)

unpause(sender) ==
  IF sender # Owner THEN Revert("unpause", "OwnableUnauthorizedAccount")
  ELSE IF ~paused THEN Revert("unpause", "ExpectedPause")
  ELSE /\ paused' = FALSE
       /\ last' = Outcome("unpause", "ok", "-")
       /\ UNCHANGED <<messagingVars, codecVars, callStack, balanceAllowed, packetAllowed,
                      balances, withdrawRequests, userWithdrawIds,
                      decryptionToWithdrawRequest, redPackets, userRedPacketIds,
                      redPacketCounter, encryptedZeroInitialized, pool, now,
                      requestedHandles, completed, packetEvents>>

Unpause == \E sender \in Users \cup {Owner} : unpause(sender)

\* --------------------------------------------------------------- red packets
createRedPacketCheck(sender, recipient, inputOk, messageLength) ==
  IF paused THEN "EnforcedPause"
  ELSE IF ~(recipient # ZeroAddress /\ recipient # sender) THEN "Invalid recipient"
  ELSE IF ~(messageLength <= MAX_MESSAGE_LENGTH) THEN "Message too long"
  ELSE IF ~inputOk THEN "Unauthorized access to encrypted amount"
  ELSE "ok"

\* The requested amount taken without the balance comparison.
actualAmount_unchecked(senderBalance, amount) == amount

actualAmount(senderBalance, amount) ==
  FHE_select(FHE_ge(senderBalance, amount), amount, 0)

createRedPacket(sender, recipient, amount, inputOk, messageLength) ==
  /\ Len(redPackets) < MaxPackets
  /\ IF createRedPacketCheck(sender, recipient, inputOk, messageLength) # "ok"
     THEN Revert("createRedPacket",
                 createRedPacketCheck(sender, recipient, inputOk, messageLength))
     ELSE LET senderBalance == balances[sender]
              actual == actualAmount(senderBalance, amount)
              packetId == redPacketCounter
          IN /\ redPacketCounter' = redPacketCounter + 1
             /\ redPackets' = Append(redPackets,
                  [id |-> packetId, sender |-> sender, recipient |-> recipient,
                   amount |-> actual,
                   expireTime |-> now + RED_PACKET_EXPIRE_TIME,
                   claimed |-> FALSE])
             /\ balances' = [balances EXCEPT ![sender] = FHE_sub(senderBalance, actual)]
             /\ balanceAllowed' = [balanceAllowed EXCEPT
                                     ![sender] = allowBalance(NoGrants, sender)]
             /\ packetAllowed' = Append(packetAllowed,
                  FHE_allowThis(FHE_allow(FHE_allow(NoGrants, sender), recipient)))
             /\ encryptedZeroInitialized' = TRUE
             /\ userRedPacketIds' =
                  [userRedPacketIds EXCEPT ![sender] = Append(@, packetId),
                                           ![recipient] = Append(@, packetId)]
             /\ packetEvents' = Append(packetEvents, <<>>)
             /\ last' = Outcome("createRedPacket", "ok",
                                IF FHE_ge(senderBalance, amount)
                                THEN "moved" ELSE "insufficient")
             /\ UNCHANGED <<messagingVars, codecVars, callStack,
                            withdrawRequests, userWithdrawIds,
                            decryptionToWithdrawRequest, paused, pool, now,
                            requestedHandles, completed>>

CreateRedPacket ==
  \E sender \in Users, recipient \in Users \cup {ZeroAddress}, amount \in Amounts,
     inputOk \in BOOLEAN,
     messageLength \in {0, MAX_MESSAGE_LENGTH, MAX_MESSAGE_LENGTH + 1} :
     createRedPacket(sender, recipient, amount, inputOk, messageLength)

\* claimRedPacket without the recipient check.
claimRedPacketCheck_anyCaller(sender, packetId) ==
  IF paused THEN "EnforcedPause"
  ELSE IF ~(packetId < Len(redPackets)) THEN "Red packet does not exist"
  ELSE IF At(redPackets, packetId).claimed THEN "Already claimed"
  ELSE IF ~(now <= At(redPackets, packetId).expireTime) THEN "Red packet expired"
  ELSE "ok"

claimRedPacketCheck(sender, packetId) ==
  IF paused THEN "EnforcedPause"
  ELSE IF ~(packetId < Len(redPackets)) THEN "Red packet does not exist"
  ELSE IF ~(At(redPackets, packetId).recipient = sender) THEN "Not your red packet"
  ELSE IF At(redPackets, packetId).claimed THEN "Already claimed"
  ELSE IF ~(now <= At(redPackets, packetId).expireTime) THEN "Red packet expired"
  ELSE "ok"

claimNewBalance(currentBalance, amount) ==
  IF isInitialized(currentBalance) THEN FHE_add(currentBalance, amount) ELSE amount

\* The new balance is a fresh sum, or the packet's own amount handle when
\* the claimant had no balance yet.
claimNewGrants(currentBalance, packetId, owner) ==
  allowBalance(IF isInitialized(currentBalance) THEN NoGrants
               ELSE At(packetAllowed, packetId), owner)

claimRedPacket(sender, packetId) ==
  IF claimRedPacketCheck(sender, packetId) # "ok"
  THEN Revert("claimRedPacket", claimRedPacketCheck(sender, packetId))
  ELSE LET redPacket == At(redPackets, packetId)
       IN /\ redPackets' = [redPackets EXCEPT ![packetId + 1].claimed = TRUE]
          /\ balances' = [balances EXCEPT
                            ![sender] = claimNewBalance(balances[sender], redPacket.amount)]
          /\ balanceAllowed' = [balanceAllowed EXCEPT
                                  ![sender] = claimNewGrants(balances[sender], packetId, sender)]
          /\ packetAllowed' =
               IF isInitialized(balances[sender]) THEN packetAllowed
               ELSE [packetAllowed EXCEPT
                       ![packetId + 1] = claimNewGrants(balances[sender], packetId, sender)]
          /\ packetEvents' =
               [packetEvents EXCEPT ![packetId + 1] =
                  Append(@, [name |-> "RedPacketClaimed",
                             sender |-> redPacket.sender, recipient |-> sender])]
          /\ last' = Outcome("claimRedPacket", "ok",
                             IF isInitialized(balances[sender]) THEN "add" ELSE "first")
          /\ UNCHANGED <<messagingVars, codecVars, callStack,
                         withdrawRequests, userWithdrawIds,
                         decryptionToWithdrawRequest, userRedPacketIds,
                         redPacketCounter, encryptedZeroInitialized,
                         paused, pool, now, requestedHandles, completed>>

PacketIds == 0 .. MaxPackets

ClaimRedPacket ==
  \E sender \in Users, packetId \in PacketIds : claimRedPacket(sender, packetId)

\* reclaimExpiredRedPacket without the claimed check.
reclaimExpiredRedPacketCheck_noClaimedCheck(sender, packetId) ==
  IF paused THEN "EnforcedPause"
  ELSE IF ~(packetId < Len(redPackets)) THEN "Red packet does not exist"
  ELSE IF ~(At(redPackets, packetId).sender = sender) THEN "Not your red packet"
  ELSE IF ~(now > At(redPackets, packetId).expireTime) THEN "Not expired yet"
  ELSE "ok"

\* reclaimExpiredRedPacket with the expiry comparison off by one (>=).
reclaimExpiredRedPacketCheck_atExpiry(sender, packetId) ==
  IF paused THEN "EnforcedPause"
  ELSE IF ~(packetId < Len(redPackets)) THEN "Red packet does not exist"
  ELSE IF ~(At(redPackets, packetId).sender = sender) THEN "Not your red packet"
  ELSE IF At(redPackets, packetId).claimed THEN "Already claimed"
  ELSE IF ~(now >= At(redPackets, packetId).expireTime) THEN "Not expired yet"
  ELSE "ok"

reclaimExpiredRedPacketCheck(sender, packetId) ==
  IF paused THEN "EnforcedPause"
  ELSE IF ~(packetId < Len(redPackets)) THEN "Red packet does not exist"
  ELSE IF ~(At(redPackets, packetId).sender = sender) THEN "Not your red packet"
  ELSE IF At(redPackets, packetId).claimed THEN "Already claimed"
  ELSE IF ~(now > At(redPackets, packetId).expireTime) THEN "Not expired yet"
  ELSE "ok"

reclaimExpiredRedPacket(sender, packetId) ==
  IF reclaimExpiredRedPacketCheck(sender, packetId) # "ok"
  THEN Revert("reclaimExpiredRedPacket", reclaimExpiredRedPacketCheck(sender, packetId))
  ELSE LET redPacket == At(redPackets, packetId)
       IN /\ redPackets' = [redPackets EXCEPT ![packetId + 1].claimed = TRUE]
          /\ balances' = [balances EXCEPT
                            ![sender] = FHE_add(balances[sender], redPacket.amount)]
          /\ balanceAllowed' = [balanceAllowed EXCEPT
                                  ![sender] = allowBalance(NoGrants, sender)]
          /\ packetEvents' =
               [packetEvents EXCEPT ![packetId + 1] =
                  Append(@, [name |-> "RedPacketExpired",
                             sender |-> sender, recipient |-> redPacket.recipient])]
          /\ last' = Outcome("reclaimExpiredRedPacket", "ok", "-")
          /\ UNCHANGED <<messagingVars, codecVars, callStack, packetAllowed,
                         withdrawRequests, userWithdrawIds,
                         decryptionToWithdrawRequest, userRedPacketIds,
                         redPacketCounter, encryptedZeroInitialized,
                         paused, pool, now, requestedHandles, completed>>

ReclaimExpiredRedPacket ==
  \E sender \in Users, packetId \in PacketIds : reclaimExpiredRedPacket(sender, packetId)

\* Block time advances between transactions.
Tick ==
  /\ now < MaxTime
  /\ now' = now + 1
  /\ last' = Outcome("block", "ok", "-")
  /\ UNCHANGED <<messagingVars, codecVars, callStack, balanceAllowed, packetAllowed,
                 balances, withdrawRequests, userWithdrawIds,
                 decryptionToWithdrawRequest, redPackets, userRedPacketIds,
                 redPacketCounter, encryptedZeroInitialized, paused, pool,
                 requestedHandles, completed, packetEvents>>

\* ==================================================== ConfidentialMessaging
MessagingInit ==
  /\ messages = <<>>
  /\ userMessagePages = [u \in Accounts |-> EmptyMapping]
  /\ userPageCount = [u \in Accounts |-> 0]
  /\ userCurrentPageSize = [u \in Accounts |-> 0]
  /\ messageAccess = {}
  /\ userStats = [u \in Accounts |->
                    [sentMessages |-> 0, receivedMessages |-> 0, lastActivity |-> 0]]
  /\ messagingPaused = FALSE

\* messageAccess[messageId][account], a never-written key reading false.
hasAccess(messageId, account) == <<messageId, account>> \in messageAccess

\* One page of a user's index, a never-written page reading as the empty array.
PageAt(pages, pageIndex) ==
  IF pageIndex \in DOMAIN pages THEN pages[pageIndex] ELSE <<>>

\* _addMessageToUserPages opening a new page one entry late (> for >=).
addMessageToUserPages_lateOpen(index, user, messageId) ==
  LET opened ==
        IF index.count[user] = 0
        THEN [index EXCEPT !.count[user] = 1, !.size[user] = 0]
        ELSE IF index.size[user] > MESSAGES_PER_PAGE
        THEN [index EXCEPT !.count[user] = @ + 1, !.size[user] = 0]
        ELSE index
      currentPageIndex == opened.count[user] - 1
  IN [opened EXCEPT
        !.pages[user] = Store(@, currentPageIndex,
                              Append(PageAt(@, currentPageIndex), messageId)),
        !.size[user] = @ + 1]


\* _addMessageToUserPages without userCurrentPageSize[user]++.
addMessageToUserPages_sizeKept(index, user, messageId) ==
  LET opened ==
        IF index.count[user] = 0
        THEN [index EXCEPT !.count[user] = 1, !.size[user] = 0]
        ELSE IF index.size[user] >= MESSAGES_PER_PAGE
        THEN [index EXCEPT !.count[user] = @ + 1, !.size[user] = 0]
        ELSE index
      currentPageIndex == opened.count[user] - 1
  IN [opened EXCEPT
        !.pages[user] = Store(@, currentPageIndex,
                              Append(PageAt(@, currentPageIndex), messageId))]


\* The three index mappings after _addMessageToUserPages(user, messageId).
addMessageToUserPages(index, user, messageId) ==
  LET opened ==
        IF index.count[user] = 0
        THEN [index EXCEPT !.count[user] = 1, !.size[user] = 0]
        ELSE IF index.size[user] >= MESSAGES_PER_PAGE
        THEN [index EXCEPT !.count[user] = @ + 1, !.size[user] = 0]
        ELSE index
      currentPageIndex == opened.count[user] - 1
  IN [opened EXCEPT
        !.pages[user] = Store(@, currentPageIndex,
                              Append(PageAt(@, currentPageIndex), messageId)),
        !.size[user] = @ + 1]

\* sendMessage without the comparison of the two array lengths.
sendMessageCheck_noProofCount(sender, recipient, chunkCount, proofCount, chunksOk) ==
  IF messagingPaused THEN "EnforcedPause"
  ELSE IF ~(recipient # ZeroAddress /\ recipient # sender) THEN "Invalid recipient"
  ELSE IF ~(chunkCount > 0 /\ chunkCount <= MAX_CHUNKS) THEN "Invalid chunk count (1-64)"
  ELSE IF ~chunksOk THEN "Unauthorized access to encrypted chunk"
  ELSE "ok"


\* chunksOk: FHE.fromExternal accepts every chunk with its proof and the
\* resulting handles are initialized and allowed for the caller.
sendMessageCheck(sender, recipient, chunkCount, proofCount, chunksOk) ==
  IF messagingPaused THEN "EnforcedPause"
  ELSE IF ~(recipient # ZeroAddress /\ recipient # sender) THEN "Invalid recipient"
  ELSE IF ~(chunkCount > 0 /\ chunkCount <= MAX_CHUNKS) THEN "Invalid chunk count (1-64)"
  ELSE IF ~(chunkCount = proofCount) THEN "Chunk/proof count mismatch"
  ELSE IF ~chunksOk THEN "Unauthorized access to encrypted chunk"
  ELSE "ok"

\* The grants sendMessage issues on every chunk handle of a message.
chunkGrants(sender, recipient) ==
  FHE_allow(FHE_allow(FHE_allowThis(NoGrants), sender), recipient)

\* messageAccess after the send, written for the sender only.
grantAccess_senderOnly(access, messageId, sender, recipient) ==
  access \cup {<<messageId, sender>>}

grantAccess(access, messageId, sender, recipient) ==
  access \cup {<<messageId, sender>>, <<messageId, recipient>>}

sendMessage(sender, recipient, chunkCount, proofCount, chunksOk) ==
  IF sendMessageCheck(sender, recipient, chunkCount, proofCount, chunksOk) # "ok"
  THEN Revert("sendMessage",
              sendMessageCheck(sender, recipient, chunkCount, proofCount, chunksOk))
  ELSE LET messageId == Len(messages)
           index == [pages |-> userMessagePages, count |-> userPageCount,
                     size |-> userCurrentPageSize]
           indexed == addMessageToUserPages(
                        addMessageToUserPages(index, sender, messageId),
                        recipient, messageId)
       IN /\ messages' = Append(messages,
               [id |-> messageId, sender |-> sender, recipient |-> recipient,
                content |-> [i \in 1 .. chunkCount |-> chunkGrants(sender, recipient)],
                chunkCount |-> chunkCount, timestamp |-> now, isRead |-> FALSE])
          /\ userMessagePages' = indexed.pages
          /\ userPageCount' = indexed.count
          /\ userCurrentPageSize' = indexed.size
          /\ messageAccess' = grantAccess(messageAccess, messageId, sender, recipient)
          /\ userStats' =
               [userStats EXCEPT
                  ![sender].sentMessages = @ + 1, ![sender].lastActivity = now,
                  ![recipient].receivedMessages = @ + 1, ![recipient].lastActivity = now]
          /\ last' = Outcome("sendMessage", "ok", "-")
          /\ UNCHANGED <<ledgerVars, codecVars, messagingPaused>>

\* Sends of at most `cap` messages by `senders`, the chunk count drawn from
\* `counts`, with as many proofs or one more.
SendMessage(cap, senders, counts) ==
  /\ Len(messages) < cap
  /\ \E sender \in senders, recipient \in Accounts \cup {ZeroAddress},
        chunkCount \in counts, extraProofs \in {0, 1}, chunksOk \in BOOLEAN :
        sendMessage(sender, recipient, chunkCount, chunkCount + extraProofs, chunksOk)

\* markAsRead open to every party of the message.
\* markAsRead flipping the flag instead of setting it.
markAsRead_toggle(sender, messageId) ==
  IF ~(messageId < Len(messages)) THEN Revert("markAsRead", "Message not found")
  ELSE IF ~(At(messages, messageId).recipient = sender)
  THEN Revert("markAsRead", "Only recipient can mark as read")
  ELSE /\ messages' = [messages EXCEPT ![messageId + 1].isRead = ~@]
       /\ last' = Outcome("markAsRead", "ok",
                          IF At(messages, messageId).isRead THEN "again" ELSE "first")
       /\ UNCHANGED <<ledgerVars, codecVars, userMessagePages, userPageCount,
                      userCurrentPageSize, messageAccess, userStats,
                      messagingPaused>>


markAsReadCheck_anyParty(sender, messageId) ==
  IF ~(messageId < Len(messages)) THEN "Message not found"
  ELSE IF ~hasAccess(messageId, sender) THEN "Only recipient can mark as read"
  ELSE "ok"

markAsReadCheck(sender, messageId) ==
  IF ~(messageId < Len(messages)) THEN "Message not found"
  ELSE IF ~(At(messages, messageId).recipient = sender)
  THEN "Only recipient can mark as read"
  ELSE "ok"

markAsRead(sender, messageId) ==
  IF markAsReadCheck(sender, messageId) # "ok"
  THEN Revert("markAsRead", markAsReadCheck(sender, messageId))
  ELSE /\ messages' = [messages EXCEPT ![messageId + 1].isRead = TRUE]
       /\ last' = Outcome("markAsRead", "ok",
                          IF At(messages, messageId).isRead THEN "again" ELSE "first")
       /\ UNCHANGED <<ledgerVars, codecVars, userMessagePages, userPageCount,
                      userCurrentPageSize, messageAccess, userStats,
                      messagingPaused>>

MessageIds == 0 .. MaxMessages

MarkAsRead ==
  \E sender \in Accounts, messageId \in MessageIds : markAsRead(sender, messageId)

pauseMessaging(sender) ==
  IF sender # Owner THEN Revert("pauseMessaging", "OwnableUnauthorizedAccount")
  ELSE IF messagingPaused THEN Revert("pauseMessaging", "EnforcedPause")
  ELSE /\ messagingPaused' = TRUE
       /\ last' = Outcome("pauseMessaging", "ok", "-")
       /\ UNCHANGED <<ledgerVars, codecVars, messages, userMessagePages,
                      userPageCount, userCurrentPageSize, messageAccess, userStats>>

PauseMessaging == \E sender \in {"carol", Owner} : pauseMessaging(sender)

unpauseMessaging(sender) ==
  IF sender # Owner THEN Revert("unpauseMessaging", "OwnableUnauthorizedAccount")
  ELSE IF ~messagingPaused THEN Revert("unpauseMessaging", "ExpectedPause")
  ELSE /\ messagingPaused' = FALSE
       /\ last' = Outcome("unpauseMessaging", "ok", "-")
       /\ UNCHANGED <<ledgerVars, codecVars, messages, userMessagePages,
                      userPageCount, userCurrentPageSize, messageAccess, userStats>>

UnpauseMessaging == \E sender \in {"carol", Owner} : unpauseMessaging(sender)

\* -------------------------------------------------------------------- views
\* What a view call gives back: "ok" with the returned value, or the revert
\* reason.
Returned(status, value) == [status |-> status, value |-> value]

getMessageHandles(caller, messageId) ==
  IF ~(messageId < Len(messages)) THEN Returned("Message not found", <<>>)
  ELSE IF ~hasAccess(messageId, caller) THEN Returned("Access denied", <<>>)
  ELSE IF ~(Len(At(messages, messageId).content) > 0)
  THEN Returned("Invalid content structure", <<>>)
  ELSE IF \E i \in DOMAIN At(messages, messageId).content :
            caller \notin At(messages, messageId).content[i]
  THEN Returned("No FHE access permission for content", <<>>)
  ELSE Returned("ok", At(messages, messageId).content)

getMessageChunk(caller, messageId, chunkIndex) ==
  IF ~(messageId < Len(messages)) THEN Returned("Message not found", <<>>)
  ELSE IF ~hasAccess(messageId, caller) THEN Returned("Access denied", <<>>)
  ELSE IF ~(chunkIndex < At(messages, messageId).chunkCount)
  THEN Returned("Invalid chunk index", <<>>)
  ELSE IF caller \notin At(At(messages, messageId).content, chunkIndex)
  THEN Returned("No FHE access permission for content", <<>>)
  ELSE Returned("ok", At(At(messages, messageId).content, chunkIndex))

getMessageInfo(caller, messageId) ==
  IF ~(messageId < Len(messages)) THEN Returned("Message not found", <<>>)
  ELSE IF ~hasAccess(messageId, caller) THEN Returned("Access denied", <<>>)
  ELSE Returned("ok",
         [sender |-> At(messages, messageId).sender,
          recipient |-> At(messages, messageId).recipient,
          chunkCount |-> At(messages, messageId).chunkCount,
          timestamp |-> At(messages, messageId).timestamp,
          isRead |-> At(messages, messageId).isRead])

userMessageCount(user) ==
  userStats[user].sentMessages + userStats[user].receivedMessages

\* Exchange of two neighbours of a 1-based array.
swap(ids, k) ==
  [ids EXCEPT ![k] = ids[k + 1], ![k + 1] = ids[k]]

\* The inner loop of _sortMessageIdsDesc from 0-based position j up to stop.
RECURSIVE bubblePass(_, _, _)
bubblePass(ids, j, stop) ==
  IF ~(j < stop) THEN ids
  ELSE bubblePass(IF ids[j + 1] < ids[j + 2] THEN swap(ids, j + 1) ELSE ids,
                  j + 1, stop)

\* Its outer loop from pass i on.
RECURSIVE bubbleSort(_, _)
bubbleSort(ids, i) ==
  IF ~(i < Len(ids) - 1) THEN ids
  ELSE bubbleSort(bubblePass(ids, 0, Len(ids) - 1 - i), i + 1)

sortMessageIdsDesc(ids) == IF Len(ids) <= 1 THEN ids ELSE bubbleSort(ids, 0)

\* The ids met walking pages pageIndex .. pageCount - 1 forward.
RECURSIVE walkPages(_, _, _)
walkPages(pages, pageIndex, pageCount) ==
  IF ~(pageIndex < pageCount) THEN <<>>
  ELSE PageAt(pages, pageIndex) \o walkPages(pages, pageIndex + 1, pageCount)

Reverse(ids) == [i \in 1 .. Len(ids) |-> ids[Len(ids) + 1 - i]]

\* new uint32[](size) filled from the walk, the unfilled slots staying 0.
filled(size, walked) ==
  [i \in 1 .. size |-> IF i <= Len(walked) THEN walked[i] ELSE 0]

\* The walk of _getAllUserMessageIds taken newest first.
getAllUserMessageIds_unsorted(user) ==
  IF userMessageCount(user) = 0 THEN <<>>
  ELSE filled(userMessageCount(user),
              walkPages(userMessagePages[user], 0, userPageCount[user]))

getAllUserMessageIds(user) ==
  IF userMessageCount(user) = 0 THEN <<>>
  ELSE sortMessageIdsDesc(
         filled(userMessageCount(user),
                walkPages(userMessagePages[user], 0, userPageCount[user])))

\* _getLatestUserMessageIds walking the pages oldest first.
getLatestUserMessageIds_oldestFirst(user, limit) ==
  LET totalUserMessages == userMessageCount(user)
      actualLimit == IF limit > totalUserMessages THEN totalUserMessages ELSE limit
  IN IF totalUserMessages = 0 THEN <<>>
     ELSE sortMessageIdsDesc(
            filled(actualLimit,
                   walkPages(userMessagePages[user], 0, userPageCount[user])))

getLatestUserMessageIds(user, limit) ==
  LET totalUserMessages == userMessageCount(user)
      actualLimit == IF limit > totalUserMessages THEN totalUserMessages ELSE limit
  IN IF totalUserMessages = 0 THEN <<>>
     ELSE sortMessageIdsDesc(
            filled(actualLimit,
                   Reverse(walkPages(userMessagePages[user], 0, userPageCount[user]))))

\* _getUserMessageIdsInRange without the access filter.
getUserMessageIdsInRange_unfiltered(user, startId, endId) ==
  [i \in 1 .. (endId - startId + 1) |-> startId + i - 1]


getUserMessageIdsInRange(user, startId, endId) ==
  SelectSeq([i \in 1 .. (endId - startId + 1) |-> startId + i - 1],
            LAMBDA id : hasAccess(id, user))

buildMessageInfo(messageId) ==
  [id |-> At(messages, messageId).id,
   sender |-> At(messages, messageId).sender,
   recipient |-> At(messages, messageId).recipient,
   chunkCount |-> At(messages, messageId).chunkCount,
   timestamp |-> At(messages, messageId).timestamp,
   isRead |-> At(messages, messageId).isRead]

\* The MessageQueryResult built for a list of ids; _buildMessageInfo reverts
\* on an id that is not a message.
queryResult(user, ids) ==
  IF \E i \in DOMAIN ids : ~(ids[i] < Len(messages))
  THEN Returned("Message not found", <<>>)
  ELSE Returned("ok",
         [messages |-> [i \in DOMAIN ids |-> buildMessageInfo(ids[i])],
          totalMessages |-> Len(messages),
          totalUserMessages |-> userMessageCount(user)])

getAllUserMessages(caller, user) ==
  IF ~(user = caller) THEN Returned("Can only query own messages", <<>>)
  ELSE queryResult(user, getAllUserMessageIds(user))

getLatestUserMessages(caller, user, limit) ==
  IF ~(user = caller) THEN Returned("Can only query own messages", <<>>)
  ELSE IF ~(limit > 0 /\ limit <= MAX_QUERY_LIMIT)
  THEN Returned("Invalid limit range (1-100)", <<>>)
  ELSE queryResult(user, getLatestUserMessageIds(user, limit))

\* getUserMessagesByIdRange without the check of endId against messages.length.
getUserMessagesByIdRange_noEndCheck(caller, user, startId, endId) ==
  IF ~(user = caller) THEN Returned("Can only query own messages", <<>>)
  ELSE IF ~(startId <= endId) THEN Returned("Invalid ID range", <<>>)
  ELSE queryResult(user, getUserMessageIdsInRange(user, startId, endId))


getUserMessagesByIdRange(caller, user, startId, endId) ==
  IF ~(user = caller) THEN Returned("Can only query own messages", <<>>)
  ELSE IF ~(startId <= endId) THEN Returned("Invalid ID range", <<>>)
  ELSE IF ~(endId < Len(messages)) THEN Returned("End ID exceeds total messages", <<>>)
  ELSE queryResult(user, getUserMessageIdsInRange(user, startId, endId))

\* queryMessages taking param1 as the limit of query type 1 as well.
queryMessages_paramForLatestN(caller, queryType, param1) ==
  IF queryType = 0 THEN queryResult(caller, getAllUserMessageIds(caller))
  ELSE IF queryType = 1
  THEN queryResult(caller, getLatestUserMessageIds(caller, param1))
  ELSE IF queryType = 2
  THEN LET limit == IF param1 > 0 THEN param1 ELSE DEFAULT_QUERY_LIMIT
       IN IF ~(limit <= MAX_QUERY_LIMIT)
          THEN Returned("Invalid limit range (1-100)", <<>>)
          ELSE queryResult(caller, getLatestUserMessageIds(caller, limit))
  ELSE Returned("Invalid query type", <<>>)


queryMessages(caller, queryType, param1) ==
  IF queryType = 0 THEN queryResult(caller, getAllUserMessageIds(caller))
  ELSE IF queryType = 1
  THEN queryResult(caller, getLatestUserMessageIds(caller, DEFAULT_QUERY_LIMIT))
  ELSE IF queryType = 2
  THEN LET limit == IF param1 > 0 THEN param1 ELSE DEFAULT_QUERY_LIMIT
       IN IF ~(limit <= MAX_QUERY_LIMIT)
          THEN Returned("Invalid limit range (1-100)", <<>>)
          ELSE queryResult(caller, getLatestUserMessageIds(caller, limit))
  ELSE Returned("Invalid query type", <<>>)

\* The arguments the view calls are made with.
ChunkIndexes == {0, MAX_CHUNKS - 1, MAX_CHUNKS}
Limits == (0 .. (MaxIndexed + 1)) \cup {MAX_QUERY_LIMIT, MAX_QUERY_LIMIT + 1}
EdgeLimits == {0, 1, MAX_QUERY_LIMIT + 1}
QueryTypes == 0 .. 3

\* A view call changes no storage; `last` keeps its name and outcome.
GetMessageHandles ==
  \E caller \in Accounts, messageId \in MessageIds :
     /\ last' = Outcome("getMessageHandles",
                        getMessageHandles(caller, messageId).status, "-")
     /\ UNCHANGED <<ledgerVars, messagingVars, codecVars>>

GetMessageChunk ==
  \E caller \in Accounts, messageId \in MessageIds, chunkIndex \in ChunkIndexes :
     /\ last' = Outcome("getMessageChunk",
                        getMessageChunk(caller, messageId, chunkIndex).status, "-")
     /\ UNCHANGED <<ledgerVars, messagingVars, codecVars>>

GetMessageInfo ==
  \E caller \in Accounts, messageId \in MessageIds :
     /\ last' = Outcome("getMessageInfo",
                        getMessageInfo(caller, messageId).status, "-")
     /\ UNCHANGED <<ledgerVars, messagingVars, codecVars>>

GetAllUserMessages ==
  \E caller \in Accounts, user \in Accounts :
     /\ last' = Outcome("getAllUserMessages",
                        getAllUserMessages(caller, user).status, "-")
     /\ UNCHANGED <<ledgerVars, messagingVars, codecVars>>

GetLatestUserMessages(limits) ==
  \E caller \in Accounts, user \in Accounts, limit \in limits :
     /\ last' = Outcome("getLatestUserMessages",
                        getLatestUserMessages(caller, user, limit).status, "-")
     /\ UNCHANGED <<ledgerVars, messagingVars, codecVars>>

GetUserMessagesByIdRange ==
  \E caller \in Accounts, user \in Accounts,
     startId \in MessageIds, endId \in MessageIds :
     /\ last' = Outcome("getUserMessagesByIdRange",
                        getUserMessagesByIdRange(caller, user, startId, endId).status,
                        "-")
     /\ UNCHANGED <<ledgerVars, messagingVars, codecVars>>

QueryMessages(limits) ==
  \E caller \in Accounts, queryType \in QueryTypes, param1 \in limits :
     /\ last' = Outcome("queryMessages",
                        queryMessages(caller, queryType, param1).status, "-")
     /\ UNCHANGED <<ledgerVars, messagingVars, codecVars>>


\* ===================================================== client message codec
\* utils/fhe-message-encryption.ts.  A text is the sequence of its code
\* points, here below U+0800 (one or two UTF-8 bytes each).
Alphabet == {SPACE, LETTER_A, LETTER_E_ACUTE, LETTER_H, LETTER_I}

Texts == UNION {[1 .. n -> Alphabet] : n \in 0 .. MaxChars}

Whitespace == {9, 10, 11, 12, 13, SPACE, 160}

\* The concatenation of a sequence of sequences, by halves.
RECURSIVE Concat(_)
Concat(seqs) ==
  IF seqs = <<>> THEN <<>>
  ELSE IF Len(seqs) = 1 THEN seqs[1]
  ELSE Concat(SubSeq(seqs, 1, Len(seqs) \div 2))
         \o Concat(SubSeq(seqs, Len(seqs) \div 2 + 1, Len(seqs)))

\* TextEncoder.encode of one code point
utf8Bytes(codePoint) ==
  IF codePoint < 128 THEN <<codePoint>>
  ELSE <<192 + (codePoint \div 64), 128 + (codePoint % 64)>>

textToBytes(text) == Concat([i \in DOMAIN text |-> utf8Bytes(text[i])])

RECURSIVE splitMessageIntoChunks(_, _)
splitMessageIntoChunks(bytes, chunkSize) ==
  IF bytes = <<>> THEN <<>>
  ELSE IF Len(bytes) <= chunkSize THEN <<bytes>>
  ELSE <<SubSeq(bytes, 1, chunkSize)>>
         \o splitMessageIntoChunks(SubSeq(bytes, chunkSize + 1, Len(bytes)), chunkSize)

\* The packing with the first byte in the high bits.
RECURSIVE packChunk_highFirst(_, _)
packChunk_highFirst(chunk, j) ==
  IF ~(j < Len(chunk)) THEN 0
  ELSE chunk[j + 1] * (BYTE_RANGE ^ (Len(chunk) - 1 - j)) + packChunk_highFirst(chunk, j + 1)

\* chunkValue |= byte << (j * 8), low byte first
RECURSIVE packChunk(_, _)
packChunk(chunk, j) ==
  IF ~(j < Len(chunk)) THEN 0
  ELSE chunk[j + 1] * (BYTE_RANGE ^ j) + packChunk(chunk, j + 1)

\* A chunk value as JavaScript holds it: a number when it is safe, a bigint
\* otherwise.
finalValue(chunkValue) ==
  [type |-> IF chunkValue <= MAX_SAFE_INTEGER THEN "number" ELSE "bigint",
   value |-> chunkValue]

Min(a, b) == IF a < b THEN a ELSE b

\* The chunk count capped one above the store's limit.
maxChunksOf_lenient(byteCount) ==
  Min(MAX_CHUNKS + 1, (byteCount + CHUNK_SIZE - 1) \div CHUNK_SIZE)

\* Math.min(64, Math.ceil(messageBytes.length / chunkSize))
maxChunksOf(byteCount) ==
  Min(MAX_CHUNKS, (byteCount + CHUNK_SIZE - 1) \div CHUNK_SIZE)

\* The chunk values encryptMessageOptimized hands to the encryption.
packMessage(message) ==
  LET messageBytes == textToBytes(message)
      maxChunks == maxChunksOf(Len(messageBytes))
      chunks == splitMessageIntoChunks(messageBytes, CHUNK_SIZE)
      kept == IF Len(chunks) > maxChunks THEN SubSeq(chunks, 1, maxChunks) ELSE chunks
  IN [i \in DOMAIN kept |-> finalValue(packChunk(kept[i], 0))]

\* Byte i of a value, by shift and mask (bigint) or by division (number).
byteOf(value, i) == (value \div (BYTE_RANGE ^ i)) % BYTE_RANGE

\* The bytes parseDecryptedValues extracts from one value: zero bytes dropped.
RECURSIVE nonZeroBytes(_, _)
nonZeroBytes(value, i) ==
  IF ~(i < CHUNK_SIZE) THEN <<>>
  ELSE (IF byteOf(value, i) # 0 THEN <<byteOf(value, i)>> ELSE <<>>)
         \o nonZeroBytes(value, i + 1)

\* TextDecoder('utf-8', {fatal: false}).decode for sequences of one and two
\* bytes; anything else decodes to U+FFFD.
RECURSIVE utf8Decode(_)
utf8Decode(bytes) ==
  IF bytes = <<>> THEN <<>>
  ELSE IF bytes[1] < 128 THEN <<bytes[1]>> \o utf8Decode(Tail(bytes))
  ELSE IF /\ bytes[1] >= 194 /\ bytes[1] <= 223 /\ Len(bytes) >= 2
          /\ bytes[2] >= 128 /\ bytes[2] <= 191
  THEN <<(bytes[1] - 192) * 64 + (bytes[2] - 128)>> \o utf8Decode(Tail(Tail(bytes)))
  ELSE <<REPLACEMENT_CHARACTER>> \o utf8Decode(Tail(bytes))

RECURSIVE trimStart(_)
trimStart(text) ==
  IF text # <<>> /\ text[1] \in Whitespace THEN trimStart(Tail(text)) ELSE text

\* String.prototype.trim
trim(text) == Reverse(trimStart(Reverse(trimStart(text))))

\* The number of bits of a positive integer.
RECURSIVE bitLength(_)
bitLength(n) == IF n = 0 THEN 0 ELSE 1 + bitLength(n \div 2)

\* Number(bigint): exact up to MAX_SAFE_INTEGER, above it the nearest value
\* with as many significant bits as MAX_SAFE_INTEGER has, ties to even.
Number(value) ==
  IF value <= MAX_SAFE_INTEGER THEN value
  ELSE LET unit == 2 ^ (bitLength(value) - bitLength(MAX_SAFE_INTEGER))
           q == value \div unit
           r == value % unit
       IN IF 2 * r > unit \/ (2 * r = unit /\ q % 2 = 1)
          THEN (q + 1) * unit ELSE q * unit

\* ToInt32: what the operands of >> and & are converted to, a signed integer
\* of INT_BITS bits.
ToInt32(number) ==
  LET low == number % (2 ^ INT_BITS)
  IN IF low >= 2 ^ (INT_BITS - 1) THEN low - 2 ^ INT_BITS ELSE low

\* number >> count: the count is taken modulo the width of the integer.
signedRightShift(number, count) == ToInt32(number) \div (2 ^ (count % INT_BITS))

\* number & 0xFF
lowByte(number) == ToInt32(number) % BYTE_RANGE

dropZeros(bytes) == SelectSeq(bytes, LAMBDA byte : byte # 0)

\* Math.floor(tempValue / Math.pow(2, i * 8)) & 0xFF, for i = 0 .. 7
dividedBytes(tempValue) ==
  dropZeros([k \in 1 .. CHUNK_SIZE |-> lowByte(tempValue \div (BYTE_RANGE ^ (k - 1)))])

\* (chunk >> (i * 8)) & 0xFF, for i = 0 .. 7
shiftedBytes(chunk) ==
  dropZeros([k \in 1 .. CHUNK_SIZE |-> lowByte(signedRightShift(chunk, (k - 1) * 8))])

\* The bytes array of parseDecryptedValues: a bigint, or a number above the
\* safe range, goes through the BigInt branch, anything else through the
\* branch that divides.
decryptedBytes(decryptedValues) ==
  Concat([i \in DOMAIN decryptedValues |->
            IF \/ decryptedValues[i].type = "bigint"
               \/ decryptedValues[i].value > MAX_SAFE_INTEGER
            THEN nonZeroBytes(decryptedValues[i].value, 0)
            ELSE dividedBytes(decryptedValues[i].value)])

parseDecryptedValues(decryptedValues) ==
  trim(utf8Decode(decryptedBytes(decryptedValues)))

\* The bytes array of decryptMessage(decryptedChunks: number[]).
decryptMessageBytes(decryptedChunks) ==
  Concat([i \in DOMAIN decryptedChunks |-> shiftedBytes(decryptedChunks[i].value)])

decryptMessage(decryptedChunks) == utf8Decode(decryptMessageBytes(decryptedChunks))

\* The bytes array of MessageService.parseDecryptedValues(bigint[]):
\* valueNumber = Number(value), then the same shifts.
MessageService_parseDecryptedBytes(decryptedValues) ==
  Concat([i \in DOMAIN decryptedValues |->
            shiftedBytes(Number(decryptedValues[i].value))])

MessageService_parseDecryptedValues(decryptedValues) ==
  utf8Decode(MessageService_parseDecryptedBytes(decryptedValues))

\* ------------------------------------------------------------ client caches
\* A JavaScript Map: the sequence of its [key, value] entries in insertion
\* order.  undefined and null are one record, unequal to every value kept.
Undefined == [undefined |-> TRUE]

EmptyMap == <<>>

mapHas(map, key) == \E i \in DOMAIN map : map[i].key = key

mapGet(map, key) ==
  IF mapHas(map, key)
  THEN (CHOOSE e \in {map[i] : i \in DOMAIN map} : e.key = key).value
  ELSE Undefined

\* Map.set: a key already present keeps its place and takes the new value.
mapSet(map, key, value) ==
  IF mapHas(map, key)
  THEN [i \in DOMAIN map |-> IF map[i].key = key
                             THEN [key |-> key, value |-> value] ELSE map[i]]
  ELSE Append(map, [key |-> key, value |-> value])

mapDelete(map, key) == SelectSeq(map, LAMBDA e : e.key # key)

\* typeof chunkValue === 'bigint' ? Number(chunkValue) : chunkValue
valueForCache(chunkValue) ==
  IF chunkValue.type = "bigint" THEN Number(chunkValue.value) ELSE chunkValue.value

\* EncryptionCache.buildKey: `${value}|${contractAddress}|${senderAddress}`
buildKey(value, contractAddress, senderAddress) ==
  <<value, contractAddress, senderAddress>>

\* What a cache method hands back: its return value and the Map afterwards.
Answer(result, cache) == [result |-> result, cache |-> cache]

\* getCached that still answers at the age of the time to live.
EncryptionCache_getCached_late(cache, value, contractAddress, senderAddress, dateNow) ==
  LET key == buildKey(value, contractAddress, senderAddress)
      rec == mapGet(cache, key)
  IN IF rec # Undefined /\ dateNow - rec.timestamp <= ENCRYPTION_TTL
     THEN Answer([encryptedHandle |-> rec.encryptedHandle,
                  inputProof |-> rec.inputProof], cache)
     ELSE IF rec # Undefined THEN Answer(Undefined, mapDelete(cache, key))
     ELSE Answer(Undefined, cache)

EncryptionCache_getCached(cache, value, contractAddress, senderAddress, dateNow) ==
  LET key == buildKey(value, contractAddress, senderAddress)
      rec == mapGet(cache, key)
  IN IF rec # Undefined /\ dateNow - rec.timestamp < ENCRYPTION_TTL
     THEN Answer([encryptedHandle |-> rec.encryptedHandle,
                  inputProof |-> rec.inputProof], cache)
     ELSE IF rec # Undefined THEN Answer(Undefined, mapDelete(cache, key))
     ELSE Answer(Undefined, cache)

\* setCached without the eviction.
EncryptionCache_setCached_noEviction(cache, value, contractAddress, senderAddress, encryptedHandle, inputProof, dateNow) ==
  mapSet(cache, buildKey(value, contractAddress, senderAddress),
         [encryptedHandle |-> encryptedHandle, inputProof |-> inputProof,
          timestamp |-> dateNow])

EncryptionCache_setCached(cache, value, contractAddress, senderAddress, encryptedHandle, inputProof, dateNow) ==
  LET room == IF Len(cache) >= ENCRYPTION_MAX_SIZE
              THEN mapDelete(cache, cache[1].key) ELSE cache
  IN mapSet(room, buildKey(value, contractAddress, senderAddress),
            [encryptedHandle |-> encryptedHandle, inputProof |-> inputProof,
             timestamp |-> dateNow])


\* handles.sort().join('|'): the handles in lexicographic order.  A handle
\* prints as its number.
RECURSIVE sortHandles(_)
sortHandles(handles) ==
  IF handles = <<>> THEN <<>>
  ELSE LET least == CHOOSE i \in DOMAIN handles :
                      \A j \in DOMAIN handles :
                         handles[i].id < handles[j].id
                           \/ (handles[i].id = handles[j].id /\ i <= j)
       IN <<handles[least]>>
            \o sortHandles([k \in 1 .. Len(handles) - 1 |->
                              IF k < least THEN handles[k] ELSE handles[k + 1]])

handlesKey(handles) == [i \in DOMAIN handles |-> sortHandles(handles)[i].id]

DecryptionCache_getCached(cache, handles, dateNow) ==
  LET key == handlesKey(handles)
      cached == mapGet(cache, key)
  IN IF cached # Undefined /\ dateNow - cached.timestamp < DECRYPTION_TTL
     THEN Answer(cached.result, cache)
     ELSE IF cached # Undefined THEN Answer(Undefined, mapDelete(cache, key))
     ELSE Answer(Undefined, cache)

DecryptionCache_setCached(cache, handles, result, dateNow) ==
  LET room == IF Len(cache) >= DECRYPTION_MAX_SIZE
              THEN mapDelete(cache, cache[1].key) ELSE cache
  IN mapSet(room, handlesKey(handles), [result |-> result, timestamp |-> dateNow])


\* The addresses of the client: the messaging contract, one more contract,
\* and a string that is no 42-character 0x address.
MessagingContract == "messaging"
OtherContract == "other"
MalformedAddress == "0x"

isSenderAddress(senderAddress) == senderAddress # MalformedAddress

\* A ciphertext handle: its serial number stands for the bytes32, the rest
\* records what was encrypted and under which context.
Handle(id, value, contractAddress, senderAddress) ==
  [id |-> id, plain |-> value, contractAddress |-> contractAddress,
   senderAddress |-> senderAddress]

\* The proof of one createEncryptedInput(...).encrypt(): it covers the handles
\* of that input.
InputProof(ids) == [handles |-> ids]

\* The loop over chunkValues that asks the cache for every chunk, in order.
RECURSIVE lookupChunks(_, _, _, _, _, _)
lookupChunks(cache, values, i, contractAddress, senderAddress, dateNow) ==
  IF i > Len(values) THEN [cache |-> cache, cached |-> <<>>]
  ELSE LET answer == EncryptionCache_getCached(cache, valueForCache(values[i]),
                                               contractAddress, senderAddress, dateNow)
           rest == lookupChunks(answer.cache, values, i + 1,
                                contractAddress, senderAddress, dateNow)
       IN [cache |-> rest.cache, cached |-> <<answer.result>> \o rest.cached]

\* encryptChunksNonBlocking, second forEach: every fresh handle is cached under
\* the value it encrypts.
RECURSIVE cacheEncrypted(_, _, _, _, _, _, _)
cacheEncrypted(cache, handles, proof, i, contractAddress, senderAddress, dateNow) ==
  IF i > Len(handles) THEN cache
  ELSE cacheEncrypted(
         EncryptionCache_setCached(
           cache, valueForCache(finalValue(handles[i].plain)),
           contractAddress, senderAddress, handles[i], proof, dateNow),
         handles, proof, i + 1, contractAddress, senderAddress, dateNow)

\* The indexes of the chunks the cache did not answer, in order.
toEncryptIndexes(cached) ==
  SelectSeq([i \in DOMAIN cached |-> i], LAMBDA i : cached[i] = Undefined)

\* Position of an index in a sequence of distinct indexes.
positionOf(indexes, index) == CHOOSE k \in DOMAIN indexes : indexes[k] = index

CodecInit ==
  /\ plainMessage = <<>>
  /\ chunkValues = <<>>
  /\ decoded = <<>>
  /\ clock = 0
  /\ handleCount = 0
  /\ encryptionCache = EmptyMap
  /\ decryptionCache = EmptyMap
  /\ encrypted = Undefined
  /\ decrypted = Undefined
  /\ handleStrings = <<>>
  /\ tempMessages = <<>>
  /\ calls = <<>>
  /\ latestOnChain = 0

encryptMessageOptimized(message, contractAddress, senderAddress, encryptionOk) ==
  LET values == packMessage(message)
      looked == lookupChunks(encryptionCache, values, 1,
                             contractAddress, senderAddress, clock)
      toEncrypt == toEncryptIndexes(looked.cached)
      fresh == [k \in DOMAIN toEncrypt |->
                  Handle(handleCount + k, values[toEncrypt[k]].value,
                         contractAddress, senderAddress)]
      proof == InputProof([k \in DOMAIN fresh |-> fresh[k].id])
      results == [i \in DOMAIN values |->
                    IF looked.cached[i] # Undefined
                    THEN [handle |-> looked.cached[i].encryptedHandle,
                          proof |-> looked.cached[i].inputProof]
                    ELSE [handle |-> fresh[positionOf(toEncrypt, i)],
                          proof |-> proof]]
  IN /\ plainMessage' = message
     /\ UNCHANGED <<ledgerVars, messagingVars, sendVars, decoded, clock, decryptionCache,
                    decrypted, handleStrings>>
     /\ IF ~isSenderAddress(senderAddress)
        THEN /\ last' = Outcome("encryptMessageOptimized", "throws", "address")
             /\ chunkValues' = <<>>
             /\ encrypted' = Undefined
             /\ UNCHANGED <<handleCount, encryptionCache>>
        ELSE /\ chunkValues' = values
             /\ handleCount + Len(toEncrypt) <= MaxHandles
             /\ IF toEncrypt = <<>>
                THEN /\ encryptionCache' = looked.cache
                     /\ encrypted' = [encryptedHandles |-> [i \in DOMAIN values |-> results[i].handle],
                                      inputProofs |-> [i \in DOMAIN values |-> results[i].proof]]
                     /\ last' = Outcome("encryptMessageOptimized", "ok", "cached")
                     /\ UNCHANGED handleCount
                ELSE IF encryptionOk
                THEN /\ encryptionCache' = cacheEncrypted(looked.cache, fresh, proof, 1,
                                                          contractAddress, senderAddress, clock)
                     /\ handleCount' = handleCount + Len(toEncrypt)
                     /\ encrypted' = [encryptedHandles |-> [i \in DOMAIN values |-> results[i].handle],
                                      inputProofs |-> [i \in DOMAIN values |-> results[i].proof]]
                     /\ last' = Outcome("encryptMessageOptimized", "ok",
                                        IF looked.cache # encryptionCache THEN "expired"
                                        ELSE IF Len(toEncrypt) = Len(values)
                                        THEN "encrypted" ELSE "mixed")
                ELSE /\ encryptionCache' = looked.cache
                     /\ encrypted' = Undefined
                     /\ last' = Outcome("encryptMessageOptimized", "throws", "encrypt")
                     /\ UNCHANGED handleCount

\* encryptMessageOptimized up to its first await (lines 203-243): the text is
\* encoded, split, truncated and packed; nothing is looked up or encrypted yet.
PackMessage ==
  /\ last.op = "constructor"
  /\ chunkValues' = packMessage(plainMessage)
  /\ last' = Outcome("packMessage", "ok", "-")
  /\ UNCHANGED <<ledgerVars, messagingVars, sendVars, plainMessage, decoded, cacheVars>>

\* sendEncryptedMessageToContractOptimized up to the return of the encryption
\* (lines 22-65): an invalid recipient address and an empty message are
\* refused first.
sendEncryptedMessageToContractOptimized(message, recipientAddress, senderAddress) ==
  IF recipientAddress = MalformedAddress
  THEN /\ last' = Outcome("sendEncryptedMessageToContractOptimized", "throws", "recipient")
       /\ UNCHANGED <<ledgerVars, messagingVars, codecVars>>
  ELSE IF Len(textToBytes(message)) = 0
  THEN /\ last' = Outcome("sendEncryptedMessageToContractOptimized", "throws", "empty")
       /\ UNCHANGED <<ledgerVars, messagingVars, codecVars>>
  ELSE encryptMessageOptimized(message, MessagingContract, senderAddress, TRUE)

\* The rest of it (lines 67-142): the handles and proofs are handed to
\* sendMessage of the messaging contract by the sender they were encrypted for.
submitEncrypted(recipientAddress, senderAddress) ==
  /\ last.op = "encryptMessageOptimized"
  /\ last.status = "ok"
  /\ Len(encrypted.encryptedHandles) # 0
  /\ Len(encrypted.inputProofs) = Len(encrypted.encryptedHandles)
  /\ sendMessage(senderAddress, recipientAddress,
                 Len(encrypted.encryptedHandles), Len(encrypted.inputProofs), TRUE)


\* The message of the codec specification, encrypted for the messaging
\* contract.
EncryptMessageOptimized ==
  encryptMessageOptimized(plainMessage, MessagingContract, "alice", TRUE)

\* Any message of a set, under any context of a set.
EncryptMessage(texts, contracts, senders) ==
  \E message \in texts, contractAddress \in contracts, senderAddress \in senders,
     encryptionOk \in BOOLEAN :
     encryptMessageOptimized(message, contractAddress, senderAddress, encryptionOk)

\* The recipient decodes the chunk values of the message, in order.
ParseDecryptedValues ==
  /\ last.op = "encryptMessageOptimized"
  /\ last.status = "ok"
  /\ decoded' = parseDecryptedValues(chunkValues)
  /\ last' = Outcome("parseDecryptedValues", "ok", "-")
  /\ UNCHANGED <<ledgerVars, messagingVars, sendVars, plainMessage, chunkValues, cacheVars>>

\* The text decryptChunksToMessage returns when it caught an error; it is no
\* message text.
FailureText == <<-1>>

\* The values the decryption returned, in the order of the handles; a handle
\* outside `available` came back undefined.
RECURSIVE decryptedValuesOf(_, _, _)
decryptedValuesOf(handles, available, i) ==
  IF i > Len(handles) THEN <<>>
  ELSE (IF i \in available
        THEN <<[type |-> "bigint", value |-> handles[i].plain]>> ELSE <<>>)
         \o decryptedValuesOf(handles, available, i + 1)

\* decryptChunksToMessage; userDecrypt, the gateway and publicDecrypt are one
\* oracle that answers for the handles of `available`.
decryptChunksToMessage(handles, available) ==
  LET looked == DecryptionCache_getCached(decryptionCache, handles, clock)
      decryptedValues == decryptedValuesOf(handles, available, 1)
      result == [content |-> parseDecryptedValues(decryptedValues),
                 isComplete |-> Len(decryptedValues) = Len(handles)]
  IN /\ UNCHANGED <<ledgerVars, messagingVars, sendVars, plainMessage, chunkValues, decoded,
                    clock, handleCount, encryptionCache, encrypted>>
     /\ handleStrings' = IF handles = <<>> THEN handleStrings
                         ELSE handlesKey(handles)
     /\ IF handles = <<>>
        THEN /\ decrypted' = [content |-> FailureText, isComplete |-> FALSE]
             /\ last' = Outcome("decryptChunksToMessage", "failed", "no handles")
             /\ UNCHANGED decryptionCache
        ELSE IF looked.result # Undefined
        THEN /\ decrypted' = looked.result
             /\ decryptionCache' = looked.cache
             /\ last' = Outcome("decryptChunksToMessage", "ok", "cached")
        ELSE IF decryptedValues = <<>>
        THEN /\ decrypted' = [content |-> FailureText, isComplete |-> FALSE]
             /\ decryptionCache' = looked.cache
             /\ last' = Outcome("decryptChunksToMessage", "failed", "no values")
        ELSE /\ decrypted' = result
             /\ decryptionCache' =
                  DecryptionCache_setCached(looked.cache, handles, result, clock)
             /\ last' = Outcome("decryptChunksToMessage", "ok",
                                IF looked.cache # decryptionCache
                                THEN "expired" ELSE "decrypted")

\* The recipient decrypts the handles of the message encrypted last, or is
\* handed no handles at all.
DecryptChunksToMessage ==
  \E handles \in {<<>>} \cup (IF encrypted = Undefined THEN {}
                              ELSE {encrypted.encryptedHandles}) :
     \E available \in SUBSET DOMAIN handles :
        decryptChunksToMessage(handles, available)


\* clearAllFHECaches
ClearAllFHECaches ==
  /\ encryptionCache' = EmptyMap
  /\ decryptionCache' = EmptyMap
  /\ last' = Outcome("clearAllFHECaches", "ok", "-")
  /\ UNCHANGED <<ledgerVars, messagingVars, sendVars, plainMessage, chunkValues, decoded,
                 clock, handleCount, encrypted, decrypted, handleStrings>>

\* clearDecryptionCache
ClearDecryptionCache ==
  /\ decryptionCache' = EmptyMap
  /\ last' = Outcome("clearDecryptionCache", "ok", "-")
  /\ UNCHANGED <<ledgerVars, messagingVars, sendVars, plainMessage, chunkValues, decoded,
                 clock, handleCount, encryptionCache, encrypted, decrypted, handleStrings>>

\* The client's clock moves on.
TickClock ==
  /\ clock < MaxClock
  /\ clock' = clock + 1
  /\ last' = Outcome("tick", "ok", "-")
  /\ UNCHANGED <<ledgerVars, messagingVars, sendVars, plainMessage, chunkValues, decoded,
                 handleCount, encryptionCache, decryptionCache, encrypted, decrypted, handleStrings>>


\* ----------------------------------------------------------- optimistic send
\* Date.now() as a temp message and a block carry it: never 0.
dateNow == clock + 1

\* The TempMessage sendMessageWithProgress builds; its content stands for
\* content and recipient, which identify the send, and no two sends share it.
TempMessage(id, content) ==
  [id |-> id, content |-> content, status |-> "sending", timestamp |-> dateNow]

\* useMessages: addTempMessage, updateTempMessageStatus, removeTempMessage
addTempMessage(prev, tempMessage) == Append(prev, tempMessage)

updateTempMessageStatus(prev, tempId, status) ==
  [i \in DOMAIN prev |->
     IF prev[i].id = tempId THEN [prev[i] EXCEPT !.status = status] ELSE prev[i]]

removeTempMessage(prev, tempId) == SelectSeq(prev, LAMBDA msg : msg.id # tempId)

\* loadMessageHistory, the cleaning of temp messages that have landed: a temp
\* message that has not failed goes once the account's latest message on
\* chain is not older than it (the 5 s of tolerance are less than a unit of
\* the clock).
cleanTempMessages(prev, latestSec) ==
  IF latestSec = 0 THEN prev
  ELSE SelectSeq(prev, LAMBDA tmp : tmp.status = "failed" \/ ~(latestSec >= tmp.timestamp))

\* The temp messages of one send in a list.
TempMessagesOf(list, content) == {i \in DOMAIN list : list[i].content = content}

\* One call of sendMessageWithProgress: the temp message it made, the send it
\* is for, the failed temp message retrySendMessage was called with (0 when
\* the call is no retry) and how many temp messages of the send the list had
\* at that moment, the state of its promise, and whether its timer is armed.
Call(tempId, content, retryOf, before, promise) ==
  [tempId |-> tempId, content |-> content, retryOf |-> retryOf, before |-> before,
   promise |-> promise, timer |-> FALSE]

\* sendMessageWithProgress up to its await (lines 49-74): a new id; a send
\* that fails validation throws before a temp message is made, and the catch
\* marks the id, which is in no list, as failed.
sendMessageWithProgress(valid) ==
  LET tempMessageId == Len(calls) + 1
  IN /\ Len(calls) < MaxSends
     /\ IF valid
        THEN /\ tempMessages' = updateTempMessageStatus(
                                  addTempMessage(tempMessages,
                                                 TempMessage(tempMessageId, tempMessageId)),
                                  tempMessageId, "sending")
             /\ calls' = Append(calls, Call(tempMessageId, tempMessageId, 0, 0, "pending"))
             /\ last' = Outcome("sendMessageWithProgress", "ok", "awaiting")
        ELSE /\ tempMessages' = updateTempMessageStatus(tempMessages, tempMessageId, "failed")
             /\ calls' = Append(calls, Call(tempMessageId, tempMessageId, 0, 0, "rejected"))
             /\ last' = Outcome("sendMessageWithProgress", "throws", "invalid")
     /\ UNCHANGED <<ledgerVars, messagingVars, plainMessage, chunkValues, decoded,
                    cacheVars, latestOnChain>>

\* retrySendMessage up to the await inside sendMessageWithProgress (lines
\* 174-177 and 49-74): the failed temp message is marked as sending, then
\* the send is made anew with its content and recipient, under a new id.
retrySendMessage(tempMessage) ==
  LET tempMessageId == Len(calls) + 1
  IN /\ Len(calls) < MaxSends
     /\ tempMessages' = addTempMessage(
                          updateTempMessageStatus(tempMessages, tempMessage.id, "sending"),
                          TempMessage(tempMessageId, tempMessage.content))
     /\ calls' = Append(calls,
                        Call(tempMessageId, tempMessage.content, tempMessage.id,
                             Cardinality(TempMessagesOf(tempMessages, tempMessage.content)),
                             "pending"))
     /\ last' = Outcome("retrySendMessage", "ok", "awaiting")
     /\ UNCHANGED <<ledgerVars, messagingVars, plainMessage, chunkValues, decoded,
                    cacheVars, latestOnChain>>

\* sendEncryptedMessageToContractOptimized settles (lines 76-92, and 189-191
\* for a retry).  Success: the message is on chain, the temp message is sent
\* and the timer is set.  Failure: the temp message is failed, and so is the
\* one the retry was called with.
sendSettles(k, success) ==
  /\ calls[k].promise = "pending"
  /\ IF success
     THEN /\ tempMessages' = updateTempMessageStatus(tempMessages, calls[k].tempId, "sent")
          /\ calls' = [calls EXCEPT ![k].promise = "resolved", ![k].timer = TRUE]
          /\ latestOnChain' = dateNow
          /\ last' = Outcome("sendMessageWithProgress", "ok", "sent")
     ELSE /\ tempMessages' =
               LET failed == updateTempMessageStatus(tempMessages, calls[k].tempId, "failed")
               IN IF calls[k].retryOf # 0
                  THEN updateTempMessageStatus(failed, calls[k].retryOf, "failed")
                  ELSE failed
          /\ calls' = [calls EXCEPT ![k].promise = "rejected"]
          /\ last' = Outcome("sendMessageWithProgress", "throws", "send")
          /\ UNCHANGED latestOnChain
  /\ UNCHANGED <<ledgerVars, messagingVars, plainMessage, chunkValues, decoded, cacheVars>>

\* The timer of a successful send (lines 84-87): the temp message is removed
\* and the history is loaded again, which cleans the list when it succeeds.
timerFires(k, loaded) ==
  /\ calls[k].timer
  /\ tempMessages' =
       LET removed == removeTempMessage(tempMessages, calls[k].tempId)
       IN IF loaded THEN cleanTempMessages(removed, latestOnChain) ELSE removed
  /\ calls' = [calls EXCEPT ![k].timer = FALSE]
  /\ last' = Outcome("setTimeout", "ok", IF loaded THEN "loaded" ELSE "not loaded")
  /\ UNCHANGED <<ledgerVars, messagingVars, plainMessage, chunkValues, decoded,
                 cacheVars, latestOnChain>>

\* loadMessageHistory run by an effect of the page.
loadMessageHistory ==
  /\ tempMessages' = cleanTempMessages(tempMessages, latestOnChain)
  /\ last' = Outcome("loadMessageHistory", "ok", "-")
  /\ UNCHANGED <<ledgerVars, messagingVars, plainMessage, chunkValues, decoded,
                 cacheVars, calls, latestOnChain>>

SendMessageWithProgress == \E valid \in BOOLEAN : sendMessageWithProgress(valid)

\* The retry button is shown on failed temp messages only.
RetrySendMessage ==
  \E i \in DOMAIN tempMessages :
     /\ tempMessages[i].status = "failed"
     /\ retrySendMessage(tempMessages[i])

SendSettles == \E k \in DOMAIN calls, success \in BOOLEAN : sendSettles(k, success)

TimerFires == \E k \in DOMAIN calls, loaded \in BOOLEAN : timerFires(k, loaded)


\* ------------------------------------------------------------ specification
Init ==
  /\ BankingInit
  /\ MessagingInit
  /\ CodecInit
  /\ last = Outcome("constructor", "ok", "-")

\* The ledger under deposits and transfers.
NextLedger ==
  \/ DepositBy(Users)
  \/ Transfer
  \/ Receive
  \/ Pause
  \/ Unpause

SpecLedger == Init /\ [][NextLedger]_vars

\* The two-phase withdrawal against the settlement pool.  Only the accounts in
\* Depositors fund their balance here; the withdrawals of the others are
\* requests against an uninitialized or empty balance.
Depositors == {"alice"}

NextWithdraw ==
  \/ DepositBy(Depositors)
  \/ Withdraw
  \/ WithdrawCallback
  \/ EmergencyWithdraw

SpecWithdraw == Init /\ [][NextWithdraw]_vars

\* The red-packet engine, funded by the same depositors.
NextRedPacket ==
  \/ DepositBy(Depositors)
  \/ CreateRedPacket
  \/ ClaimRedPacket
  \/ ReclaimExpiredRedPacket
  \/ Tick

SpecRedPacket == Init /\ [][NextRedPacket]_vars

\* The message store under sends with every kind of argument and read marks.
ChunkCounts == {0, 1, MAX_CHUNKS, MAX_CHUNKS + 1}

NextMessaging ==
  \/ SendMessage(MaxMessages, Accounts, ChunkCounts)
  \/ MarkAsRead

SpecMessaging == Init /\ [][NextMessaging]_vars

\* Its readers: one-chunk messages, the owner's pause switch, and every view
\* called by every account.
NextReads ==
  \/ SendMessage(MaxMessages, Accounts, {1})
  \/ PauseMessaging
  \/ UnpauseMessaging
  \/ GetMessageHandles
  \/ GetMessageChunk
  \/ GetMessageInfo
  \/ GetAllUserMessages
  \/ GetLatestUserMessages(EdgeLimits)
  \/ GetUserMessagesByIdRange
  \/ QueryMessages(EdgeLimits)

SpecReads == Init /\ [][NextReads]_vars

\* The paged per-user index under longer runs of one-chunk messages, all
\* written by one account to the others.
Writers == {"alice"}

NextPaging ==
  \/ SendMessage(MaxIndexed, Writers, {1})
  \/ GetAllUserMessages
  \/ GetLatestUserMessages(Limits)

SpecPaging == Init /\ [][NextPaging]_vars

\* Every operation that stores a balance handle, on one ledger: unit amounts
\* moved between the accounts, with the first withdrawal request and the
\* first red packet.
NextGrants ==
  \/ \E sender \in Users : deposit(sender, MIN_DEPOSIT)
  \/ \E sender \in Users, to \in Users : transfer(sender, to, MIN_WITHDRAW, TRUE)
  \/ withdrawRequests = <<>>
        /\ \E sender \in Users : withdraw(sender, MIN_WITHDRAW, TRUE)
  \/ redPackets = <<>>
        /\ \E sender \in Users, recipient \in Users :
              createRedPacket(sender, recipient, MIN_WITHDRAW, TRUE, 0)
  \/ ClaimRedPacket
  \/ ReclaimExpiredRedPacket
  \/ Tick

SpecGrants == Init /\ [][NextGrants]_vars

\* Every operation that writes one of the one-way flags (processed, claimed,
\* isRead), run side by side on the two contracts: one funded account opens
\* the first withdrawal request, the first red packet and the first message,
\* and its counterparty settles them.
NextFlags ==
  \/ deposit("alice", MAX_WITHDRAW)
  \/ withdrawRequests = <<>> /\ withdraw("alice", MIN_WITHDRAW, TRUE)
  \/ \E decryptionRequestId \in CorrelationIds :
        withdrawCallback(decryptionRequestId, MIN_WITHDRAW, TRUE, TRUE)
  \/ redPackets = <<>> /\ createRedPacket("alice", "bob", MIN_WITHDRAW, TRUE, 0)
  \/ \E packetId \in PacketIds : claimRedPacket("bob", packetId)
  \/ \E packetId \in PacketIds : reclaimExpiredRedPacket("alice", packetId)
  \/ Tick
  \/ messages = <<>> /\ sendMessage("alice", "bob", 1, 1, TRUE)
  \/ \E messageId \in MessageIds : markAsRead("bob", messageId)

SpecFlags == Init /\ [][NextFlags]_vars

\* The codec applied to every text of at most MaxChars characters.
InitCodec ==
  /\ BankingInit
  /\ MessagingInit
  /\ plainMessage \in Texts
  /\ chunkValues = <<>>
  /\ decoded = <<>>
  /\ clock = 0
  /\ handleCount = 0
  /\ encryptionCache = EmptyMap
  /\ decryptionCache = EmptyMap
  /\ encrypted = Undefined
  /\ decrypted = Undefined
  /\ handleStrings = <<>>
  /\ tempMessages = <<>>
  /\ calls = <<>>
  /\ latestOnChain = 0
  /\ last = Outcome("constructor", "ok", "-")

NextCodec ==
  \/ EncryptMessageOptimized
  \/ ParseDecryptedValues

SpecCodec == InitCodec /\ [][NextCodec]_vars

\* The encryption cache under messages of one chunk: a safe number ("hi"),
\* and full chunks above the safe-integer limit that differ in the low bits
\* of the first byte ("hhh", "ihh") or in the second byte ("hih"); two
\* senders.
CacheTexts ==
  {<<LETTER_H, LETTER_I>>, <<LETTER_H, LETTER_H, LETTER_H>>,
   <<LETTER_I, LETTER_H, LETTER_H>>, <<LETTER_H, LETTER_I, LETTER_H>>}

NextEncryption ==
  \/ EncryptMessage(CacheTexts, {MessagingContract}, Users)
  \/ ClearAllFHECaches

SpecEncryption == Init /\ [][NextEncryption]_vars

\* Both caches over time: a one-chunk and a two-chunk message of one sender
\* (three distinct chunks), their decryption, the clock and the cache
\* controls.
ClockTexts == {<<LETTER_H, LETTER_I>>, <<LETTER_H, LETTER_I, LETTER_H, LETTER_I>>}

NextCaches ==
  \/ EncryptMessage(ClockTexts, {MessagingContract}, {"alice"})
  \/ DecryptChunksToMessage
  \/ ClearAllFHECaches
  \/ ClearDecryptionCache
  \/ TickClock

SpecCaches == Init /\ [][NextCaches]_vars

\* The two-phase withdrawal with callbacks that carry genuine KMS signatures
\* and with no owner draining the pool.
SignedWithdrawCallback ==
  \E decryptionRequestId \in CorrelationIds, decryptedAmount \in Amounts,
     payeeAccepts \in BOOLEAN :
     withdrawCallback(decryptionRequestId, decryptedAmount, TRUE, payeeAccepts)

NextSettlement ==
  \/ DepositBy(Depositors)
  \/ Withdraw
  \/ SignedWithdrawCallback

SpecSettlement == Init /\ [][NextSettlement]_vars

\* Every operation that moves value, on one ledger and without the owner's
\* emergencyWithdraw: one funded account deposits MAX_WITHDRAW, transfers
\* and withdraws MIN_WITHDRAW and opens the first red packet; the callbacks
\* carry genuine KMS signatures for that amount.
NextSolvency ==
  \/ deposit("alice", MAX_WITHDRAW)
  \/ transfer("alice", "bob", MIN_WITHDRAW, TRUE)
  \/ withdraw("alice", MIN_WITHDRAW, TRUE)
  \/ \E decryptionRequestId \in CorrelationIds :
        withdrawCallback(decryptionRequestId, MIN_WITHDRAW, TRUE, TRUE)
  \/ redPackets = <<>> /\ createRedPacket("alice", "bob", MIN_WITHDRAW, TRUE, 0)
  \/ \E packetId \in PacketIds : claimRedPacket("bob", packetId)
  \/ \E packetId \in PacketIds : reclaimExpiredRedPacket("alice", packetId)
  \/ Tick

SpecSolvency == Init /\ [][NextSolvency]_vars

\* Transfers and red packets side by side: every kind of recipient, with and
\* without a valid input proof, a note within and beyond the length limit,
\* and the owner's pause switch.  The amount is the smallest one that moves
\* value.
NextRecipients ==
  \/ DepositBy(Depositors)
  \/ \E sender \in Users, to \in Users \cup {ZeroAddress}, inputOk \in BOOLEAN :
        transfer(sender, to, MIN_DEPOSIT, inputOk)
  \/ \E sender \in Users, recipient \in Users \cup {ZeroAddress},
        inputOk \in BOOLEAN, messageLength \in {0, MAX_MESSAGE_LENGTH + 1} :
        createRedPacket(sender, recipient, MIN_DEPOSIT, inputOk, messageLength)
  \/ pause(Owner)
  \/ unpause(Owner)

SpecRecipients == Init /\ [][NextRecipients]_vars

\* Settlement with the payee's code in the picture: deposits, withdrawals and
\* genuinely signed callbacks, each of which may be issued by the payee from
\* inside an open value call, up to MaxDepth nested calls.
NextReentrancy ==
  \/ \E sender \in Callers : deposit(sender, MAX_WITHDRAW)
  \/ \E sender \in Callers : withdraw(sender, MIN_WITHDRAW, TRUE)
  \/ \E decryptionRequestId \in CorrelationIds :
        withdrawCallbackEnter(decryptionRequestId, MIN_WITHDRAW, TRUE)
  \/ \E success \in BOOLEAN : withdrawCallbackReturn(success)

SpecReentrancy == Init /\ [][NextReentrancy]_vars

\* The decryption oracle at work: for a correlation id that was issued and is
\* still awaiting its callback it calls withdrawCallback with the plaintext of
\* the requested handle and genuine signatures, and the payee takes the value.
OracleDelivers(decryptionRequestId) ==
  /\ decryptionRequestId \in DOMAIN decryptionToWithdrawRequest
  /\ withdrawCallback(decryptionRequestId, requestedHandles[decryptionRequestId],
                      TRUE, TRUE)

\* Deposits and requests of both users, interleaved in every order with the
\* oracle's deliveries; no emergencyWithdraw.  The oracle is
\* fair to every correlation id.
NextDelivery ==
  \/ \E sender \in Users : deposit(sender, MAX_WITHDRAW)
  \/ \E sender \in Users, amount \in {MIN_WITHDRAW, MAX_WITHDRAW} :
        withdraw(sender, amount, TRUE)
  \/ \E decryptionRequestId \in CorrelationIds : OracleDelivers(decryptionRequestId)

SpecDelivery ==
  /\ Init
  /\ [][NextDelivery]_vars
  /\ \A decryptionRequestId \in CorrelationIds :
        WF_vars(OracleDelivers(decryptionRequestId))

\* The index and the counters of users who both send and receive: well-formed
\* one-chunk messages from two senders to every account, themselves included,
\* long enough to spill over two pages.
NextStats ==
  /\ Len(messages) < MaxIndexed
  /\ \E sender \in Users, recipient \in Accounts :
        sendMessage(sender, recipient, 1, 1, TRUE)

SpecStats == Init /\ [][NextStats]_vars

\* The path of a text from the input field to the message store: every text
\* of at most MaxChars characters, and runs of a one-byte and of a two-byte
\* character that reach past the 64 chunks a message may have.  The long runs
\* are packed; the texts within MaxChars are also encrypted and sent.
LongestBytes == MAX_CHUNKS * CHUNK_SIZE + CHUNK_SIZE + 1

LongTexts ==
  UNION {{[i \in 1 .. n |-> c] : n \in 0 .. (LongestBytes \div Len(utf8Bytes(c)))} :
           c \in {LETTER_A, LETTER_E_ACUTE}}

InitChunking ==
  /\ BankingInit
  /\ MessagingInit
  /\ plainMessage \in Texts \cup LongTexts
  /\ chunkValues = <<>>
  /\ decoded = <<>>
  /\ clock = 0
  /\ handleCount = 0
  /\ encryptionCache = EmptyMap
  /\ decryptionCache = EmptyMap
  /\ encrypted = Undefined
  /\ decrypted = Undefined
  /\ handleStrings = <<>>
  /\ tempMessages = <<>>
  /\ calls = <<>>
  /\ latestOnChain = 0
  /\ last = Outcome("constructor", "ok", "-")

NextChunking ==
  \/ PackMessage
  \/ /\ last.op = "constructor"
     /\ Len(plainMessage) <= MaxChars
     /\ \E recipientAddress \in {"bob", MalformedAddress} :
           sendEncryptedMessageToContractOptimized(plainMessage, recipientAddress, "alice")
  \/ submitEncrypted("bob", "alice")

SpecChunking == InitChunking /\ [][NextChunking]_vars

\* Messages of two chunks that share their last chunk with a one-chunk
\* message, so that one call finds some chunks in the cache and must encrypt
\* the others; the first chunks of two of them ("hhh", "ihh") lie above the
\* safe-integer limit and differ in the low bits of the first byte.
MixedTexts ==
  {<<LETTER_I>>, <<LETTER_H, LETTER_H, LETTER_H, LETTER_I>>,
   <<LETTER_I, LETTER_H, LETTER_H, LETTER_I>>}

NextMixed ==
  \/ EncryptMessage(MixedTexts, {MessagingContract}, Users)
  \/ ClearAllFHECaches
  \/ TickClock

SpecMixed == Init /\ [][NextMixed]_vars

\* The chunk decoders on the chunk values of every text: as the encoder types
\* them (a number when safe, a bigint otherwise) and as decryptChunksToMessage
\* hands them on (all bigint).
asBigInts(values) == [i \in DOMAIN values |-> [type |-> "bigint", value |-> values[i].value]]

InitDecoders ==
  /\ BankingInit
  /\ MessagingInit
  /\ plainMessage \in Texts
  /\ \E typed \in BOOLEAN :
        chunkValues = IF typed THEN packMessage(plainMessage)
                      ELSE asBigInts(packMessage(plainMessage))
  /\ decoded = <<>>
  /\ clock = 0
  /\ handleCount = 0
  /\ encryptionCache = EmptyMap
  /\ decryptionCache = EmptyMap
  /\ encrypted = Undefined
  /\ decrypted = Undefined
  /\ handleStrings = <<>>
  /\ tempMessages = <<>>
  /\ calls = <<>>
  /\ latestOnChain = 0
  /\ last = Outcome("constructor", "ok", "-")

\* One decoder is applied to the chunk values and its bytes array is kept.
Decode(op, bytes) ==
  /\ last.op = "constructor"
  /\ decoded' = bytes
  /\ last' = Outcome(op, "ok", "-")
  /\ UNCHANGED <<ledgerVars, messagingVars, sendVars, plainMessage, chunkValues, cacheVars>>

\* parseDecryptedValues(decryptedValues: (string | number | bigint)[])
ParseDecryptedBytes == Decode("parseDecryptedValues", decryptedBytes(chunkValues))

\* decryptMessage(decryptedChunks: number[])
DecryptMessage ==
  /\ \A i \in DOMAIN chunkValues : chunkValues[i].type = "number"
  /\ Decode("decryptMessage", decryptMessageBytes(chunkValues))

\* MessageService.parseDecryptedValues(decryptedValues: bigint[])
MessageServiceParse ==
  /\ \A i \in DOMAIN chunkValues : chunkValues[i].type = "bigint"
  /\ Decode("MessageService.parseDecryptedValues",
            MessageService_parseDecryptedBytes(chunkValues))

NextDecoders ==
  \/ ParseDecryptedBytes
  \/ DecryptMessage
  \/ MessageServiceParse

SpecDecoders == InitDecoders /\ [][NextDecoders]_vars

\* Two messages of two full chunks each, the chunks of one in the reverse
\* order of the other: encrypted by one sender and decrypted, with the clock
\* moving.
PermutedTexts ==
  {<<LETTER_H, LETTER_H, LETTER_H, LETTER_I, LETTER_I, LETTER_I>>,
   <<LETTER_I, LETTER_I, LETTER_I, LETTER_H, LETTER_H, LETTER_H>>}

NextPermuted ==
  \/ EncryptMessage(PermutedTexts, {MessagingContract}, {"alice"})
  \/ DecryptChunksToMessage
  \/ TickClock

SpecPermuted == Init /\ [][NextPermuted]_vars

\* The optimistic send of the chat page: sends, retries of failed temp
\* messages, the settling of the sends, the timers, reloads of the history
\* and the clock.
NextSend ==
  \/ SendMessageWithProgress
  \/ RetrySendMessage
  \/ SendSettles
  \/ TimerFires
  \/ loadMessageHistory
  \/ TickClock

SpecSend == Init /\ [][NextSend]_vars

\* ================================================================== claims
\* Decrypted value of an account's balance, an uninitialized one counting 0.
Decrypted(u) == Plain(balances[u])

\* ------------------------------------------------------------------------
\* C1: once a withdrawCallback for a correlation id has succeeded, no later
\* withdrawCallback with the same correlation id succeeds (none marks a
\* request processed or releases value): every correlation id occurs at most
\* once in the log of completed callbacks.
C1_CallbackOncePerCorrelationId ==
  \A i, j \in DOMAIN completed :
     completed[i].decryptionRequestId = completed[j].decryptionRequestId => i = j

\* C2: withdrawCallback is accepted only if the correlation map holds an
\* entry for its correlation id at the time of the call.
C2_CallbackOnlyForRecordedId ==
  [][\A id \in CorrelationIds, amt \in Amounts, s \in BOOLEAN, p \in BOOLEAN :
        (withdrawCallback(id, amt, s, p) /\ last'.status = "ok")
           => id \in DOMAIN decryptionToWithdrawRequest]_vars

\* C3: every accepted transfer leaves the decrypted sum
\* balance[from] + balance[to] unchanged.
C3_TransferConservesSum ==
  [][\A from \in Users, to \in Users, amt \in Amounts :
        (transfer(from, to, amt, TRUE) /\ last'.status = "ok")
           => Plain(balances'[from]) + Plain(balances'[to])
                = Plain(balances[from]) + Plain(balances[to])]_vars

\* C4: a transfer of more than the sender's balance (with a valid recipient
\* and a valid encrypted input, the ledger not paused) does not revert and
\* leaves the decrypted value of both balances unchanged.
C4_InsufficientTransferMovesNothing ==
  [][\A from \in Users, to \in Users, amt \in Amounts :
        (from # to /\ ~paused /\ amt > Plain(balances[from]) /\ transfer(from, to, amt, TRUE))
           => /\ last'.status = "ok"
              /\ Plain(balances'[from]) = Plain(balances[from])
              /\ Plain(balances'[to]) = Plain(balances[to])]_vars

C4_Witness ==
  /\ last = Outcome("transfer", "ok", "insufficient")
  /\ \E u \in Users : Decrypted(u) > 0

\* C5: every accepted deposit raises the account's decrypted balance by
\* exactly the plain amount paid in.
C5_DepositAddsPlainAmount ==
  [][\A sender \in Users, value \in 0 .. (MAX_DEPOSIT + 1) :
        (deposit(sender, value) /\ last'.status = "ok")
           => Plain(balances'[sender]) = Plain(balances[sender]) + value]_vars

\* C6: over a packet's lifetime at most one claim or reclaim succeeds: a
\* packet has at most one RedPacketClaimed / RedPacketExpired event, and it
\* is marked claimed exactly when it has one.
C6_PacketSettledAtMostOnce ==
  \A i \in DOMAIN redPackets :
     /\ Len(packetEvents[i]) <= 1
     /\ redPackets[i].claimed <=> Len(packetEvents[i]) = 1

C6_Witness ==
  /\ last = Outcome("claimRedPacket", "Already claimed", "-")
  /\ \E i \in DOMAIN redPackets :
        /\ redPackets[i].claimed
        /\ packetEvents[i] # <<>>
        /\ packetEvents[i][1].name = "RedPacketExpired"

\* C7: a claim passes its checks only while now <= expireTime and a reclaim
\* only once now > expireTime; for an unclaimed packet (ledger not paused)
\* exactly one of the recipient's claim and the sender's reclaim is accepted
\* at any instant, now = expireTime included.
C7_ClaimAndReclaimExclusiveInTime ==
  \A id \in PacketIds : id < Len(redPackets) =>
     LET p == At(redPackets, id)
     IN /\ \A caller \in Users :
             /\ claimRedPacketCheck(caller, id) = "ok" => now <= p.expireTime
             /\ reclaimExpiredRedPacketCheck(caller, id) = "ok" => now > p.expireTime
        /\ (~p.claimed /\ ~paused) =>
             /\ claimRedPacketCheck(p.recipient, id) = "ok" <=> now <= p.expireTime
             /\ reclaimExpiredRedPacketCheck(p.sender, id) = "ok" <=> now > p.expireTime
             /\ (claimRedPacketCheck(p.recipient, id) = "ok")
                  # (reclaimExpiredRedPacketCheck(p.sender, id) = "ok")

C7_Witness ==
  /\ last = Outcome("reclaimExpiredRedPacket", "Not expired yet", "-")
  /\ \E i \in DOMAIN redPackets :
        ~redPackets[i].claimed /\ now = redPackets[i].expireTime

\* C8: a claim by anyone but the packet's recipient and a reclaim by anyone
\* but its sender are rejected and change nothing; a successful claim
\* changes only the recipient's balance and a successful reclaim only the
\* sender's.
C8_OnlyRecipientClaimsOnlySenderReclaims ==
  [][\A caller \in Users, id \in PacketIds : id < Len(redPackets) =>
        LET p == At(redPackets, id)
        IN /\ (claimRedPacket(caller, id) /\ caller # p.recipient)
                => (last'.status # "ok" /\ UNCHANGED ledgerVars)
           /\ (reclaimExpiredRedPacket(caller, id) /\ caller # p.sender)
                => (last'.status # "ok" /\ UNCHANGED ledgerVars)
           /\ (claimRedPacket(caller, id) /\ last'.status = "ok")
                => \A u \in Users \ {p.recipient} : balances'[u] = balances[u]
           /\ (reclaimExpiredRedPacket(caller, id) /\ last'.status = "ok")
                => \A u \in Users \ {p.sender} : balances'[u] = balances[u]]_vars

C8_Witness ==
  /\ last = Outcome("claimRedPacket", "Not your red packet", "-")
  /\ \E i \in DOMAIN redPackets : ~redPackets[i].claimed /\ now <= redPackets[i].expireTime

\* C9: createRedPacket for more than the sender's balance (valid recipient,
\* message and input, ledger not paused) does not revert; the new packet is
\* unclaimed with amount 0, the sender's decrypted balance is unchanged, the
\* recipient's claim is accepted right away, and claiming a packet of amount
\* 0 leaves the claimer's decrypted balance unchanged.
C9_UnderfundedPacketIsZeroAndClaimable ==
  [][/\ \A sender \in Users, recipient \in Users, amt \in Amounts :
          (sender # recipient /\ ~paused /\ amt > Plain(balances[sender])
             /\ createRedPacket(sender, recipient, amt, TRUE, MAX_MESSAGE_LENGTH))
            => /\ last'.status = "ok"
               /\ Len(redPackets') = Len(redPackets) + 1
               /\ redPackets'[Len(redPackets')].amount = 0
               /\ ~redPackets'[Len(redPackets')].claimed
               /\ Plain(balances'[sender]) = Plain(balances[sender])
               /\ claimRedPacketCheck(recipient, Len(redPackets) - 1)' = "ok"
     /\ \A caller \in Users, id \in PacketIds :
          (id < Len(redPackets) /\ claimRedPacket(caller, id) /\ last'.status = "ok"
             /\ At(redPackets, id).amount = 0)
            => Plain(balances'[caller]) = Plain(balances[caller])]_vars

C9_Witness ==
  /\ last = Outcome("createRedPacket", "ok", "insufficient")
  /\ redPackets # <<>>
  /\ redPackets[Len(redPackets)].amount = 0
  /\ ~redPackets[Len(redPackets)].claimed
  /\ Decrypted(redPackets[Len(redPackets)].sender) > 0
  /\ claimRedPacketCheck(redPackets[Len(redPackets)].recipient, Len(redPackets) - 1) = "ok"

\* C10: a withdrawCallback that fails any of its checks changes nothing:
\* requests, correlation map, pool and balances are as before.
C10_FailedCallbackHasNoEffect ==
  [][(last'.op = "withdrawCallback" /\ last'.status # "ok")
        => UNCHANGED <<withdrawRequests, decryptionToWithdrawRequest, pool,
                       balances, completed>>]_vars

C10_Witness ==
  /\ last = Outcome("withdrawCallback", "Transfer failed", "-")
  /\ \E id \in DOMAIN decryptionToWithdrawRequest :
        /\ ~At(withdrawRequests, decryptionToWithdrawRequest[id]).processed
        /\ requestedHandles[id] >= MIN_WITHDRAW
        /\ requestedHandles[id] <= MAX_WITHDRAW
        /\ pool >= requestedHandles[id]

\* C11: the flags WithdrawRequest.processed, RedPacket.claimed and
\* Message.isRead are one-way: a step never removes a record that carries a
\* set flag and never takes a set flag back to false.
C11_FlagsAreMonotone ==
  [][/\ \A i \in DOMAIN withdrawRequests :
          withdrawRequests[i].processed
             => (i \in DOMAIN withdrawRequests' /\ withdrawRequests'[i].processed)
     /\ \A i \in DOMAIN redPackets :
          redPackets[i].claimed
             => (i \in DOMAIN redPackets' /\ redPackets'[i].claimed)
     /\ \A i \in DOMAIN messages :
          messages[i].isRead
             => (i \in DOMAIN messages' /\ messages'[i].isRead)]_vars

\* All three flags are set and the read mark has just been applied again.
C11_Witness ==
  /\ last = Outcome("markAsRead", "ok", "again")
  /\ \E i \in DOMAIN withdrawRequests : withdrawRequests[i].processed
  /\ \E i \in DOMAIN redPackets : redPackets[i].claimed
  /\ \E i \in DOMAIN messages : messages[i].isRead

\* C12: the ciphertext stored as an initialized balance carries a decrypt
\* grant for the account owner and for the ledger itself.
C12_BalanceGrantedToOwnerAndLedger ==
  \A u \in Users :
     isInitialized(balances[u]) => {u, This} \subseteq balanceAllowed[u]

\* A claimant without a balance took over the packet's own amount handle, and
\* the packet's sender reclaimed nothing: both hold granted balances.
C12_Witness ==
  /\ last = Outcome("claimRedPacket", "ok", "first")
  /\ \E i \in DOMAIN redPackets :
        /\ redPackets[i].claimed
        /\ isInitialized(balances[redPackets[i].recipient])
        /\ redPackets[i].sender \in balanceAllowed[redPackets[i].recipient]
        /\ isInitialized(balances[redPackets[i].sender])

\* The sender and the recipient of a stored message.
Parties(messageId) ==
  {At(messages, messageId).sender, At(messages, messageId).recipient}

\* C13: messageAccess holds for (m, a) exactly when a is the sender or the
\* recipient of message m; a step changes the grants only by a successful
\* send, which adds grants for the message it creates and touches no other.
C13_AccessExactlyForParties ==
  /\ [](messageAccess =
          {<<m, a>> \in (0 .. (Len(messages) - 1)) \X Accounts : a \in Parties(m)})
  /\ [][messageAccess' # messageAccess
          => /\ last' = Outcome("sendMessage", "ok", "-")
             /\ messageAccess \subseteq messageAccess'
             /\ \A grant \in messageAccess' \ messageAccess :
                   grant[1] = Len(messages)]_vars

\* Two messages between different pairs were sent and one was then marked
\* read: an account holds a grant for one message and none for the other.
C13_Witness ==
  /\ last.op = "markAsRead" /\ last.status = "ok"
  /\ Len(messages) = 2
  /\ \E a \in Accounts : hasAccess(0, a) /\ ~hasAccess(1, a)

\* Every message a successful query returns has the caller as a party.
OnlyOwn(caller, result) ==
  result.status = "ok"
     => \A i \in DOMAIN result.value.messages :
           /\ result.value.messages[i].id < Len(messages)
           /\ result.value.messages[i] = buildMessageInfo(result.value.messages[i].id)
           /\ caller \in Parties(result.value.messages[i].id)

\* C14: no view returns the handles or the metadata of a message to a caller
\* who is neither its sender nor its recipient.
C14_ViewsOnlyForParties ==
  \A caller \in Accounts :
     /\ \A messageId \in MessageIds :
           /\ getMessageHandles(caller, messageId).status = "ok"
                 => (messageId < Len(messages) /\ caller \in Parties(messageId))
           /\ getMessageInfo(caller, messageId).status = "ok"
                 => (messageId < Len(messages) /\ caller \in Parties(messageId))
           /\ \A chunkIndex \in ChunkIndexes :
                 getMessageChunk(caller, messageId, chunkIndex).status = "ok"
                    => (messageId < Len(messages) /\ caller \in Parties(messageId))
     /\ \A user \in Accounts :
           /\ OnlyOwn(caller, getAllUserMessages(caller, user))
           /\ \A limit \in EdgeLimits :
                 OnlyOwn(caller, getLatestUserMessages(caller, user, limit))
           /\ \A startId \in MessageIds, endId \in MessageIds :
                 OnlyOwn(caller, getUserMessagesByIdRange(caller, user, startId, endId))
     /\ \A queryType \in QueryTypes, param1 \in EdgeLimits :
           OnlyOwn(caller, queryMessages(caller, queryType, param1))

\* A range query over two messages was answered while some account is a party
\* of only one of them.
C14_Witness ==
  /\ last = Outcome("getUserMessagesByIdRange", "ok", "-")
  /\ Len(messages) = 2
  /\ \E a \in Accounts :
        /\ a \in Parties(0) /\ a \notin Parties(1)
        /\ Len(getUserMessagesByIdRange(a, a, 0, 1).value.messages) = 1

\* Number of ids a user's pages hold at a given storage state.
IndexEntries(pages, pageCount) == Len(walkPages(pages, 0, pageCount))

\* C15: a send is accepted only with 1..64 chunks, a recipient that is neither
\* the sender nor the zero address, and as many proofs as chunks; a rejected
\* send changes nothing in the store; an accepted one appends exactly one
\* message, one index entry for its sender and one for its recipient, and
\* adds one to the sender's sentMessages and the recipient's receivedMessages.
C15_SendValidatesThenAppendsOnce ==
  /\ [](\A sender \in Accounts, recipient \in Accounts \cup {ZeroAddress},
           chunkCount \in ChunkCounts, proofCount \in ChunkCounts,
           chunksOk \in BOOLEAN :
           sendMessageCheck(sender, recipient, chunkCount, proofCount, chunksOk) = "ok"
              => /\ 1 <= chunkCount /\ chunkCount <= 64
                 /\ recipient # sender /\ recipient # ZeroAddress
                 /\ proofCount = chunkCount)
  /\ [][last'.op = "sendMessage"
          => IF last'.status # "ok"
             THEN UNCHANGED <<messages, userMessagePages, userPageCount,
                              userCurrentPageSize, messageAccess, userStats>>
             ELSE /\ Len(messages') = Len(messages) + 1
                  /\ SubSeq(messages', 1, Len(messages)) = messages
                  /\ LET sent == messages'[Len(messages')]
                     IN /\ sent.id = Len(messages)
                        /\ Len(sent.content) = sent.chunkCount
                        /\ 1 <= sent.chunkCount /\ sent.chunkCount <= 64
                        /\ sent.recipient # sent.sender
                        /\ sent.recipient \in Accounts
                        /\ \A u \in Accounts :
                              /\ IndexEntries(userMessagePages'[u], userPageCount'[u]) =
                                   IndexEntries(userMessagePages[u], userPageCount[u])
                                     + (IF u \in {sent.sender, sent.recipient} THEN 1 ELSE 0)
                              /\ userStats'[u].sentMessages =
                                   userStats[u].sentMessages
                                     + (IF u = sent.sender THEN 1 ELSE 0)
                              /\ userStats'[u].receivedMessages =
                                   userStats[u].receivedMessages
                                     + (IF u = sent.recipient THEN 1 ELSE 0)]_vars

\* A send of 64 chunks was accepted and a later send was rejected for its
\* proof count.
C15_Witness ==
  /\ last = Outcome("sendMessage", "Chunk/proof count mismatch", "-")
  /\ Len(messages) = 1
  /\ messages[1].chunkCount = MAX_CHUNKS
  /\ userStats[messages[1].sender].sentMessages = 1

\* The ids of the messages a user is a party of.
UserIds(u) == {m \in 0 .. (Len(messages) - 1) : u \in Parties(m)}

StrictlyDescending(ids) ==
  \A i \in DOMAIN ids, j \in DOMAIN ids : i < j => ids[i] > ids[j]

Elements(ids) == {ids[i] : i \in DOMAIN ids}

\* C16: a user with n > 0 index entries has exactly ceil(n / MESSAGES_PER_PAGE)
\* pages, every page but the last full and the last holding the remaining
\* 1..MESSAGES_PER_PAGE ids; no page ever holds more than MESSAGES_PER_PAGE.
C16_PagesFilledInOrder ==
  \A u \in Accounts :
     LET n == IndexEntries(userMessagePages[u], userPageCount[u])
         pages == userPageCount[u]
     IN /\ n = Cardinality(UserIds(u))
        /\ DOMAIN userMessagePages[u] = 0 .. (pages - 1)
        /\ \A p \in DOMAIN userMessagePages[u] :
              Len(userMessagePages[u][p]) <= MESSAGES_PER_PAGE
        /\ n > 0 =>
              /\ pages = (n + MESSAGES_PER_PAGE - 1) \div MESSAGES_PER_PAGE
              /\ \A p \in 0 .. (pages - 2) :
                    Len(userMessagePages[u][p]) = MESSAGES_PER_PAGE
              /\ Len(userMessagePages[u][pages - 1]) =
                    n - MESSAGES_PER_PAGE * (pages - 1)
              /\ Len(userMessagePages[u][pages - 1]) >= 1
              /\ userCurrentPageSize[u] = Len(userMessagePages[u][pages - 1])

\* One append past two full pages: three pages, the last with one id.
C16_Witness ==
  /\ last = Outcome("sendMessage", "ok", "-")
  /\ \E u \in Accounts :
        /\ userPageCount[u] = 3
        /\ Len(userMessagePages[u][0]) = MESSAGES_PER_PAGE
        /\ Len(userMessagePages[u][1]) = MESSAGES_PER_PAGE
        /\ Len(userMessagePages[u][2]) = 1

\* C17: for a user with t index entries and a limit in 1..100, the latest
\* query returns exactly min(limit, t) ids, the largest ones of that user, in
\* strictly descending order (the empty list when t = 0).
C17_LatestAreLargestDescending ==
  \A u \in Accounts, limit \in Limits :
     (1 <= limit /\ limit <= 100) =>
        LET t == IndexEntries(userMessagePages[u], userPageCount[u])
            result == getLatestUserMessages(u, u, limit)
            ids == [i \in DOMAIN result.value.messages |-> result.value.messages[i].id]
        IN /\ result.status = "ok"
           /\ ids = getLatestUserMessageIds(u, limit)
           /\ Len(ids) = Min(limit, t)
           /\ StrictlyDescending(ids)
           /\ Elements(ids) \subseteq UserIds(u)
           /\ \A older \in UserIds(u) \ Elements(ids) :
                 \A kept \in Elements(ids) : older < kept

\* A latest query was answered for a user whose newest two ids lie on
\* different pages.
C17_Witness ==
  /\ last = Outcome("getLatestUserMessages", "ok", "-")
  /\ \E u \in Accounts :
        /\ userPageCount[u] = 2
        /\ userCurrentPageSize[u] = 1
        /\ Len(getLatestUserMessageIds(u, 2)) = 2

\* C18: the all-messages query returns exactly the ids of the messages the
\* user is a party of, each once, strictly descending, without padding.
C18_AllIsExactlyOwnDescending ==
  \A u \in Accounts :
     LET result == getAllUserMessages(u, u)
         ids == [i \in DOMAIN result.value.messages |-> result.value.messages[i].id]
     IN /\ result.status = "ok"
        /\ ids = getAllUserMessageIds(u)
        /\ Elements(ids) = UserIds(u)
        /\ Len(ids) = Cardinality(UserIds(u))
        /\ StrictlyDescending(ids)

\* An all-messages query was answered for a user with three pages.
C18_Witness ==
  /\ last = Outcome("getAllUserMessages", "ok", "-")
  /\ \E u \in Accounts :
        /\ userPageCount[u] = 3
        /\ Len(getAllUserMessageIds(u)) = 2 * MESSAGES_PER_PAGE + 1

\* C19: markAsRead is accepted only from the recipient of an existing
\* message; it sets isRead of that message and changes nothing else, and on a
\* message already read it is accepted again and leaves the store as it was;
\* from any other caller, or for an unknown id, it is rejected and changes
\* nothing.
C19_MarkReadByRecipientIdempotent ==
  [][\A sender \in Accounts, messageId \in MessageIds :
        markAsRead(sender, messageId)
           => IF messageId < Len(messages)
                 /\ At(messages, messageId).recipient = sender
              THEN /\ last'.status = "ok"
                   /\ messages' = [messages EXCEPT ![messageId + 1].isRead = TRUE]
                   /\ At(messages, messageId).isRead => messages' = messages
                   /\ UNCHANGED <<ledgerVars, userMessagePages, userPageCount,
                                  userCurrentPageSize, messageAccess, userStats,
                                  messagingPaused>>
              ELSE /\ last'.status # "ok"
                   /\ UNCHANGED <<ledgerVars, messagingVars>>]_vars

\* The recipient marked a message that was already read, and it was accepted.
C19_Witness ==
  /\ last = Outcome("markAsRead", "ok", "again")
  /\ \E i \in DOMAIN messages : messages[i].isRead

\* C20: parseDecryptedValues applied to the chunk values of
\* encryptMessageOptimized gives back the message, for every message without
\* 0x00 bytes that fits the chunks, leading or trailing whitespace and chunks
\* above the safe-integer limit included.
C20_DecodeInvertsEncode ==
  last.op = "parseDecryptedValues" => decoded = plainMessage

CacheChunks == UNION {{packMessage(m)[i] : i \in DOMAIN packMessage(m)} : m \in CacheTexts}

\* C22: a lookup of the encryption cache for chunk v under (contract, sender)
\* answers only with a handle that encrypts exactly v under that context, and
\* the handles encryptMessageOptimized returns encrypt the message's own
\* chunks, in order.
C22_CacheKeyedByExactChunk ==
  /\ \A v \in CacheChunks, c \in {MessagingContract, OtherContract}, s \in Users :
        LET answer == EncryptionCache_getCached(encryptionCache, valueForCache(v),
                                                c, s, clock)
        IN answer.result # Undefined =>
             /\ answer.result.encryptedHandle.plain = v.value
             /\ answer.result.encryptedHandle.contractAddress = c
             /\ answer.result.encryptedHandle.senderAddress = s
  /\ (last.op = "encryptMessageOptimized" /\ last.status = "ok") =>
        /\ Len(encrypted.encryptedHandles) = Len(chunkValues)
        /\ \A i \in DOMAIN chunkValues :
              encrypted.encryptedHandles[i].plain = chunkValues[i].value

\* The entries of a Map, as a set.
Entries(map) == {map[i] : i \in DOMAIN map}

\* What an insert of (key, value) into a cache of at most maxSize entries
\* must leave behind: the new entry, and of a full cache every old entry but
\* the evicted one (and the one of the same key, which is overwritten).
InsertKeepsCap(before, after, key, value, maxSize) ==
  /\ Len(after) <= maxSize
  /\ mapGet(after, key) = value
  /\ Len(before) >= maxSize =>
        /\ \E evicted \in Entries(before) :
              /\ evicted.key # key => ~mapHas(after, evicted.key)
              /\ \A e \in Entries(before) \ {evicted} :
                    e.key # key => e \in Entries(after)
        /\ Entries(after) \subseteq Entries(before) \cup {[key |-> key, value |-> value]}
  /\ Len(before) < maxSize =>
        /\ \A e \in Entries(before) : e.key # key => e \in Entries(after)

\* Handle lists and chunk values an insert may be made for.
ProbeHandles == {Handle(id, 0, MessagingContract, "alice") : id \in 1 .. MaxHandles}

ProbeLists == {<<h>> : h \in ProbeHandles} \cup {<<g, h>> : g, h \in ProbeHandles}

ProbeChunks == UNION {{packMessage(m)[i] : i \in DOMAIN packMessage(m)} : m \in ClockTexts}

\* C23: the encryption cache never holds more than ENCRYPTION_MAX_SIZE
\* entries and the decryption cache never more than DECRYPTION_MAX_SIZE; a
\* setCached into a full cache evicts exactly one existing entry, and after
\* any setCached the inserted entry is present.
C23_CachesKeepTheirCap ==
  /\ Len(encryptionCache) <= ENCRYPTION_MAX_SIZE
  /\ Len(decryptionCache) <= DECRYPTION_MAX_SIZE
  /\ \A v \in ProbeChunks, h \in ProbeHandles :
        InsertKeepsCap(encryptionCache,
                       EncryptionCache_setCached(encryptionCache, valueForCache(v),
                                                 MessagingContract, "alice",
                                                 h, InputProof(<<h.id>>), clock),
                       buildKey(valueForCache(v), MessagingContract, "alice"),
                       [encryptedHandle |-> h, inputProof |-> InputProof(<<h.id>>),
                        timestamp |-> clock],
                       ENCRYPTION_MAX_SIZE)
  /\ \A handles \in ProbeLists, complete \in BOOLEAN :
        InsertKeepsCap(decryptionCache,
                       DecryptionCache_setCached(decryptionCache, handles,
                                                 [content |-> <<>>, isComplete |-> complete],
                                                 clock),
                       handlesKey(handles),
                       [result |-> [content |-> <<>>, isComplete |-> complete],
                        timestamp |-> clock],
                       DECRYPTION_MAX_SIZE)

\* Both caches are full, and the encryption that ran last put its handle in
\* place of an entry it evicted.
C23_Witness ==
  /\ last = Outcome("encryptMessageOptimized", "ok", "encrypted")
  /\ Len(encryptionCache) = ENCRYPTION_MAX_SIZE
  /\ Len(decryptionCache) = DECRYPTION_MAX_SIZE
  /\ handleCount > ENCRYPTION_MAX_SIZE
  /\ \E e \in Entries(encryptionCache) : e.value.encryptedHandle.id = handleCount
  /\ \A e \in Entries(encryptionCache) :
        e.value.encryptedHandle.id > handleCount - ENCRYPTION_MAX_SIZE

\* A handle list that prints as the given key of the decryption cache.
HandlesOfKey(key) == [i \in DOMAIN key |-> Handle(key[i], 0, MessagingContract, "alice")]

\* C24: getCached of either cache answers with an entry only while its age is
\* below the time to live; an entry found at or beyond that age is removed,
\* nothing else is, and the lookup answers as a miss.  A call that was served
\* from a cache was served an entry younger than the time to live.
C24_ExpiredEntriesAreMisses ==
  /\ [](/\ \A e \in Entries(encryptionCache) :
              LET answer == EncryptionCache_getCached(encryptionCache, e.key[1], e.key[2],
                                                      e.key[3], clock)
              IN IF clock - e.value.timestamp >= ENCRYPTION_TTL
                 THEN /\ answer.result = Undefined
                      /\ Entries(answer.cache) = Entries(encryptionCache) \ {e}
                 ELSE /\ answer.result = [encryptedHandle |-> e.value.encryptedHandle,
                                          inputProof |-> e.value.inputProof]
                      /\ answer.cache = encryptionCache
        /\ \A e \in Entries(decryptionCache) :
              LET answer == DecryptionCache_getCached(decryptionCache, HandlesOfKey(e.key),
                                                      clock)
              IN IF clock - e.value.timestamp >= DECRYPTION_TTL
                 THEN /\ answer.result = Undefined
                      /\ Entries(answer.cache) = Entries(decryptionCache) \ {e}
                 ELSE /\ answer.result = e.value.result
                      /\ answer.cache = decryptionCache)
  /\ [][/\ (last'.op = "encryptMessageOptimized" /\ last'.status = "ok"
              /\ last'.tag \in {"cached", "mixed"})
             => \A i \in DOMAIN encrypted'.encryptedHandles :
                   encrypted'.encryptedHandles[i].id <= handleCount =>
                      \E e \in Entries(encryptionCache) :
                         /\ e.value.encryptedHandle = encrypted'.encryptedHandles[i]
                         /\ clock - e.value.timestamp < ENCRYPTION_TTL
        /\ (last'.op = "decryptChunksToMessage" /\ last'.tag = "cached")
             => \E e \in Entries(decryptionCache) :
                   /\ e.value.result = decrypted'
                   /\ clock - e.value.timestamp < DECRYPTION_TTL
        /\ (last'.op \in {"encryptMessageOptimized", "decryptChunksToMessage"}
              /\ last'.tag = "expired")
             => \/ \E e \in Entries(encryptionCache) :
                      /\ clock - e.value.timestamp >= ENCRYPTION_TTL
                      /\ e \notin Entries(encryptionCache')
                \/ \E e \in Entries(decryptionCache) :
                      /\ clock - e.value.timestamp >= DECRYPTION_TTL
                      /\ e \notin Entries(decryptionCache')]_vars

\* A message was encrypted again after its cached handle had expired: the
\* old entry is gone and a fresh handle took its place; the decryption cache
\* holds an entry at the age of its time to live.
C24_Witness ==
  /\ last = Outcome("encryptMessageOptimized", "ok", "expired")
  /\ clock >= ENCRYPTION_TTL
  /\ \A e \in Entries(encryptionCache) : e.value.timestamp = clock
  /\ \E e \in Entries(decryptionCache) : clock - e.value.timestamp >= DECRYPTION_TTL

\* C25: a successful withdraw(account, amt) lowers the account's decrypted
\* balance by actual = amt if amt <= balance, else 0; appends one request
\* (owner = account, amount = actual, processed = false, id = its position);
\* records one new correlation entry, under an id never issued before, that
\* maps to that request; and changes no other balance and no older request
\* or entry.
C25_WithdrawDebitsAndRecordsOnce ==
  [][\A sender \in Users, amount \in Amounts :
        (last'.op = "withdraw" /\ last'.status = "ok" /\ withdraw(sender, amount, TRUE))
           => LET actual == IF amount <= Decrypted(sender) THEN amount ELSE 0
                  requestId == Len(withdrawRequests)
                  added == DOMAIN decryptionToWithdrawRequest'
                             \ DOMAIN decryptionToWithdrawRequest
              IN /\ Plain(balances'[sender]) = Decrypted(sender) - actual
                 /\ \A u \in Users \ {sender} : balances'[u] = balances[u]
                 /\ Len(withdrawRequests') = requestId + 1
                 /\ SubSeq(withdrawRequests', 1, requestId) = withdrawRequests
                 /\ At(withdrawRequests', requestId).id = requestId
                 /\ At(withdrawRequests', requestId).user = sender
                 /\ At(withdrawRequests', requestId).amount = actual
                 /\ ~At(withdrawRequests', requestId).processed
                 /\ Cardinality(added) = 1
                 /\ added \cap DOMAIN requestedHandles = {}
                 /\ \A k \in added : decryptionToWithdrawRequest'[k] = requestId
                 /\ \A k \in DOMAIN decryptionToWithdrawRequest :
                       /\ k \in DOMAIN decryptionToWithdrawRequest'
                       /\ decryptionToWithdrawRequest'[k] = decryptionToWithdrawRequest[k]]_vars

\* A second request, for part of a funded balance, was just recorded.
C25_Witness ==
  /\ last = Outcome("withdraw", "ok", "moved")
  /\ Len(withdrawRequests) >= 2
  /\ At(withdrawRequests, Len(withdrawRequests) - 1).amount > 0
  /\ Decrypted(At(withdrawRequests, Len(withdrawRequests) - 1).user) > 0

\* C26: a successful withdrawCallback finds the correlation entry a withdraw
\* recorded for its id, marks processed exactly the request of that entry,
\* pays that request's owner, and pays the amount that withdraw debited; no
\* other request changes.
C26_CallbackSettlesItsOwnRequest ==
  [][\A decryptionRequestId \in CorrelationIds, decryptedAmount \in Amounts :
        (last'.op = "withdrawCallback" /\ last'.status = "ok"
           /\ withdrawCallback(decryptionRequestId, decryptedAmount, TRUE, TRUE))
           => /\ decryptionRequestId \in DOMAIN decryptionToWithdrawRequest
              /\ LET own == Lookup(decryptionToWithdrawRequest, decryptionRequestId)
                     paid == completed'[Len(completed')]
                 IN /\ At(withdrawRequests', own).processed
                    /\ \A i \in DOMAIN withdrawRequests :
                          i # own + 1 => withdrawRequests'[i] = withdrawRequests[i]
                    /\ Len(completed') = Len(completed) + 1
                    /\ paid.requestId = own
                    /\ paid.user = At(withdrawRequests, own).user
                    /\ paid.amount = At(withdrawRequests, own).amount
                    /\ pool' = pool - At(withdrawRequests, own).amount]_vars

\* C27: a request whose debited amount is non-zero and outside
\* [MIN_WITHDRAW, MAX_WITHDRAW] is never processed, and nothing is ever paid
\* out for it.
C27_OutOfRangeRequestStaysPending ==
  \A i \in DOMAIN withdrawRequests :
     (/\ withdrawRequests[i].amount # 0
      /\ ~(withdrawRequests[i].amount >= MIN_WITHDRAW
             /\ withdrawRequests[i].amount <= MAX_WITHDRAW))
       => /\ ~withdrawRequests[i].processed
          /\ \A k \in DOMAIN completed : completed[k].requestId # i - 1

\* The sum of a sequence of numbers.
RECURSIVE SumSeq(_)
SumSeq(numbers) == IF numbers = <<>> THEN 0 ELSE Head(numbers) + SumSeq(Tail(numbers))

\* The sum of all decrypted balances.
RECURSIVE SumBalances(_)
SumBalances(accounts) ==
  IF accounts = {} THEN 0
  ELSE LET u == CHOOSE a \in accounts : TRUE
       IN Decrypted(u) + SumBalances(accounts \ {u})

\* The amounts held in red packets that are neither claimed nor reclaimed.
UnclaimedPackets ==
  SumSeq([i \in DOMAIN redPackets |->
            IF redPackets[i].claimed THEN 0 ELSE Plain(redPackets[i].amount)])

\* The amounts debited for withdrawal requests that are not yet processed.
UnprocessedRequests ==
  SumSeq([i \in DOMAIN withdrawRequests |->
            IF withdrawRequests[i].processed THEN 0 ELSE withdrawRequests[i].amount])

\* C28: without emergencyWithdraw, the settlement pool holds at least the
\* sum of all decrypted balances, unclaimed red packets and unprocessed
\* withdrawal requests.
C28_PoolCoversObligations ==
  pool >= SumBalances(Users) + UnclaimedPackets + UnprocessedRequests

\* C29: a successful createRedPacket, claimRedPacket or reclaimExpiredRedPacket
\* leaves the sum of all decrypted balances and unclaimed packet amounts
\* unchanged; sender, recipient, amount and expireTime of an existing packet
\* never change, and a new packet expires RED_PACKET_EXPIRE_TIME after its
\* creation.
C29_PacketsConserveValue ==
  [][(/\ last'.op \in {"createRedPacket", "claimRedPacket", "reclaimExpiredRedPacket"}
      /\ last'.status = "ok")
       => /\ (SumBalances(Users) + UnclaimedPackets)'
               = SumBalances(Users) + UnclaimedPackets
          /\ \A i \in DOMAIN redPackets :
                /\ redPackets'[i].sender = redPackets[i].sender
                /\ redPackets'[i].recipient = redPackets[i].recipient
                /\ redPackets'[i].amount = redPackets[i].amount
                /\ redPackets'[i].expireTime = redPackets[i].expireTime
          /\ \A i \in DOMAIN redPackets' \ DOMAIN redPackets :
                redPackets'[i].expireTime = now + RED_PACKET_EXPIRE_TIME]_vars

\* The recipients line 89 and line 253 refuse for a given caller.
InvalidRecipients(sender) == {sender, ZeroAddress}

\* C30: a transfer or createRedPacket whose recipient is the caller or the
\* zero address reverts with "Invalid recipient" (or with the pause error of
\* the modifier that runs first), whatever the amount, the input proof and the
\* note, and leaves every balance, the packet log and the per-user id lists
\* as they were; a transfer that succeeds has two distinct parties.
C30_InvalidRecipientRejected ==
  [][/\ last'.op = "transfer"
          => \A sender \in Users : \A to \in InvalidRecipients(sender) :
               \A amount \in Amounts : \A inputOk \in BOOLEAN :
                 transfer(sender, to, amount, inputOk)
                   => /\ last'.status \in {"Invalid recipient", "EnforcedPause"}
                      /\ ~paused => last'.status = "Invalid recipient"
                      /\ UNCHANGED <<balances, redPackets, userRedPacketIds,
                                     userWithdrawIds, redPacketCounter,
                                     balanceAllowed, packetAllowed>>
     /\ last'.op = "createRedPacket"
          => \A sender \in Users : \A to \in InvalidRecipients(sender) :
               \A amount \in Amounts : \A inputOk \in BOOLEAN :
                 \A messageLength \in {0, MAX_MESSAGE_LENGTH, MAX_MESSAGE_LENGTH + 1} :
                   createRedPacket(sender, to, amount, inputOk, messageLength)
                     => /\ last'.status \in {"Invalid recipient", "EnforcedPause"}
                        /\ ~paused => last'.status = "Invalid recipient"
                        /\ UNCHANGED <<balances, redPackets, userRedPacketIds,
                                       userWithdrawIds, redPacketCounter,
                                       balanceAllowed, packetAllowed>>
     /\ (last'.op = "transfer" /\ last'.status = "ok")
          => \E sender \in Users : \E to \in Users \ {sender} :
               \E amount \in Amounts : transfer(sender, to, amount, TRUE)
     /\ (last'.op \in {"transfer", "createRedPacket"}
         /\ last'.status = "Invalid recipient")
          => UNCHANGED <<ledgerVars, messagingVars, codecVars>>]_vars

\* A red packet addressed to its own sender was refused while that sender
\* held a balance it could have been taken from.
C30_Witness ==
  /\ last = Outcome("createRedPacket", "Invalid recipient", "-")
  /\ \E u \in Users : Plain(balances[u]) > 0
  /\ ~paused

\* The payouts of a request: the value calls in progress for it and the
\* WithdrawCompleted events emitted for it.
Payouts(withdrawRequestId) ==
  Cardinality({i \in DOMAIN callStack : callStack[i].requestId = withdrawRequestId})
  + Cardinality({i \in DOMAIN completed : completed[i].requestId = withdrawRequestId})

\* C31: whatever the payee's code calls while the value call of
\* withdrawCallback is in progress, no WithdrawRequest has more than one
\* payout (in progress or completed), a request with a payout is flagged
\* processed, and a failed value call leaves the request unprocessed again with
\* the correlation map and the pool as they were when the callback was entered.
C31_NoSecondPayoutUnderReentry ==
  /\ [](\A r \in 0 .. (Len(withdrawRequests) - 1) :
          /\ Payouts(r) <= 1
          /\ Payouts(r) = 1 => At(withdrawRequests, r).processed)
  /\ [][(callStack # <<>> /\ last'.status = "Transfer failed"
         /\ callStack' = SubSeq(callStack, 1, Len(callStack) - 1))
          => LET frame == callStack[Len(callStack)]
             IN /\ ~At(withdrawRequests', frame.requestId).processed
                /\ decryptionToWithdrawRequest' = frame.saved.decryptionToWithdrawRequest
                /\ pool' = frame.saved.pool
                /\ completed' = frame.saved.completed]_vars

\* The payee, paid for request 0, calls withdrawCallback again from inside the
\* value call and is turned away by the flag.
C31_Witness ==
  /\ callStack # <<>>
  /\ callStack[Len(callStack)].requestId = 0
  /\ last = Outcome("withdrawCallback", "Already processed", "-")

\* Request r exists and its amount can be settled.
Settleable(r) ==
  /\ r < Len(withdrawRequests)
  /\ At(withdrawRequests, r).amount >= MIN_WITHDRAW
  /\ At(withdrawRequests, r).amount <= MAX_WITHDRAW

\* Request r is flagged and WithdrawCompleted records its amount for its user.
Settled(r) ==
  /\ r < Len(withdrawRequests)
  /\ At(withdrawRequests, r).processed
  /\ \E i \in DOMAIN completed :
        /\ completed[i].requestId = r
        /\ completed[i].user = At(withdrawRequests, r).user
        /\ completed[i].amount = At(withdrawRequests, r).amount

RECURSIVE StoredIds(_, _)
StoredIds(pages, remaining) ==
  IF remaining = {} THEN <<>>
  ELSE LET p == CHOOSE q \in remaining : \A r \in remaining : q <= r
       IN pages[p] \o StoredIds(pages, remaining \ {p})

\* C33: for every user the two counters of userStats add up to the number of
\* ids stored on the user's pages, userPageCount is the number of non-empty
\* pages, and userCurrentPageSize is the length of the last page; the array
\* that the all and latest queries size from the counters is filled to its
\* last slot from the walk, and the walk passes over every stored id.
C33_StatsMatchIndex ==
  \A u \in Accounts :
     LET stored == StoredIds(userMessagePages[u], DOMAIN userMessagePages[u])
         walked == walkPages(userMessagePages[u], 0, userPageCount[u])
     IN /\ userMessageCount(u) = Len(stored)
        /\ userPageCount[u] =
             Cardinality({p \in DOMAIN userMessagePages[u] :
                            userMessagePages[u][p] # <<>>})
        /\ userCurrentPageSize[u] =
             Len(PageAt(userMessagePages[u], userPageCount[u] - 1))
        /\ walked = stored
        /\ filled(userMessageCount(u), walked) = walked
        /\ Elements(getAllUserMessageIds(u)) = Elements(stored)
        /\ \A limit \in 1 .. userMessageCount(u) :
              /\ Len(getLatestUserMessageIds(u, limit)) = limit
              /\ filled(limit, Reverse(walked)) = SubSeq(Reverse(walked), 1, limit)

\* A user has sent three messages and received two: five ids on three pages.
C33_Witness ==
  \E u \in Accounts :
     /\ userStats[u].sentMessages = 3
     /\ userStats[u].receivedMessages = 2
     /\ userPageCount[u] = 3
     /\ userCurrentPageSize[u] = 1

\* The ids a range query can be asked for: every stored one and one beyond.
RangeIds == 0 .. MaxIndexed

\* The members of a descending id list that lie in [startId, endId], taken in
\* ascending order.
AscendingWithin(ids, startId, endId) ==
  SelectSeq(Reverse(ids), LAMBDA id : startId <= id /\ id <= endId)

\* C34: messageAccess[id][u] is set exactly for the ids on u's pages; a range
\* query with startId <= endId < messages.length returns exactly the ids of
\* the all-messages list that lie in the range, ascending, and it is rejected
\* when startId > endId or endId is not the id of a message.
C34_RangeIsAllRestricted ==
  \A u \in Accounts :
     /\ \A id \in RangeIds :
           hasAccess(id, u) <=>
              id \in Elements(walkPages(userMessagePages[u], 0, userPageCount[u]))
     /\ \A startId \in RangeIds, endId \in RangeIds :
           LET result == getUserMessagesByIdRange(u, u, startId, endId)
           IN IF startId > endId THEN result.status = "Invalid ID range"
              ELSE IF ~(endId < Len(messages))
              THEN result.status = "End ID exceeds total messages"
              ELSE /\ result.status = "ok"
                   /\ [i \in DOMAIN result.value.messages |->
                         result.value.messages[i].id]
                        = AscendingWithin(getAllUserMessageIds(u), startId, endId)

\* Some account is a party of messages 0 and 2 but not of message 1, so its
\* range [0, 2] skips an id.
C34_Witness ==
  /\ Len(messages) >= 3
  /\ \E u \in Accounts :
        /\ hasAccess(0, u) /\ ~hasAccess(1, u) /\ hasAccess(2, u)
        /\ Len(getUserMessagesByIdRange(u, u, 0, 2).value.messages) = 2

\* C35 as claimed: for the caller, query type 0 answers as the all-messages
\* query, type 1 as the latest query with limit 10, type 2 with parameter p as
\* the latest query with limit p for every p (the same list for p in 1..100,
\* a rejection for every other p), and any other type is rejected.
C35_QueryEqualsDedicated ==
  \A caller \in Accounts, p \in Limits :
     /\ queryMessages(caller, 0, p) = getAllUserMessages(caller, caller)
     /\ queryMessages(caller, 1, p)
          = getLatestUserMessages(caller, caller, DEFAULT_QUERY_LIMIT)
     /\ queryMessages(caller, 2, p) = getLatestUserMessages(caller, caller, p)
     /\ (~(1 <= p /\ p <= MAX_QUERY_LIMIT))
           => queryMessages(caller, 2, p).status # "ok"
     /\ \A queryType \in QueryTypes \ {0, 1, 2} :
           queryMessages(caller, queryType, p).status = "Invalid query type"

\* C35 as amended: the same, except that type 2 with parameter 0 is not
\* rejected but answers as the latest query with limit 10; every p above 100
\* is rejected by both with the same error.
C35_QueryEqualsDedicatedWithDefault ==
  \A caller \in Accounts, p \in Limits :
     /\ queryMessages(caller, 0, p) = getAllUserMessages(caller, caller)
     /\ queryMessages(caller, 1, p)
          = getLatestUserMessages(caller, caller, DEFAULT_QUERY_LIMIT)
     /\ queryMessages(caller, 2, p)
          = getLatestUserMessages(caller, caller,
                                  IF p = 0 THEN DEFAULT_QUERY_LIMIT ELSE p)
     /\ p > MAX_QUERY_LIMIT
           => queryMessages(caller, 2, p) = Returned("Invalid limit range (1-100)", <<>>)
     /\ \A queryType \in QueryTypes \ {0, 1, 2} :
           queryMessages(caller, queryType, p).status = "Invalid query type"

\* A unified query was answered for a caller with two messages, for whom
\* parameter 1 gives one message and parameter 0 gives both.
C35_Witness ==
  /\ last = Outcome("queryMessages", "ok", "-")
  /\ \E caller \in Accounts :
        /\ userMessageCount(caller) = 2
        /\ Len(queryMessages(caller, 2, 1).value.messages) = 1
        /\ Len(queryMessages(caller, 2, 0).value.messages) = 2
        /\ Len(queryMessages(caller, 1, 0).value.messages) = 2

C37_HandlesFollowChunks ==
  (last.op = "encryptMessageOptimized" /\ last.status = "ok") =>
     /\ Len(encrypted.encryptedHandles) = Len(chunkValues)
     /\ Len(encrypted.inputProofs) = Len(chunkValues)
     /\ \A i \in DOMAIN chunkValues :
           /\ encrypted.encryptedHandles[i].plain = chunkValues[i].value
           /\ \E k \in DOMAIN encrypted.inputProofs[i].handles :
                 encrypted.inputProofs[i].handles[k] = encrypted.encryptedHandles[i].id


\* The bytes of a chunk value at bit offsets 0, 8, ..., low byte first, without
\* the zero bytes.
ChunkBytes(value) ==
  SelectSeq([k \in 1 .. CHUNK_SIZE |-> (value \div (BYTE_RANGE ^ (k - 1))) % BYTE_RANGE],
            LAMBDA byte : byte # 0)

\* C38: every chunk decoder (parseDecryptedValues in its BigInt branch and in
\* its number branch, decryptMessage, MessageService.parseDecryptedValues)
\* yields, for every chunk sequence, the non-zero bytes of each chunk value
\* taken at its byte offsets in ascending order, so all of them yield the
\* same byte sequence.
C38_DecodersExtractSameBytes ==
  last.op \in {"parseDecryptedValues", "decryptMessage",
               "MessageService.parseDecryptedValues"}
    => decoded = Concat([i \in DOMAIN chunkValues |-> ChunkBytes(chunkValues[i].value)])


\* The texts a handle list can decrypt to, in its own order: one for every
\* set of handles the decryption answers for.
ContentsOf(handles) ==
  {parseDecryptedValues(decryptedValuesOf(handles, available, 1)) :
     available \in SUBSET DOMAIN handles}

\* C39: a result served from the decryption cache is a result of the handle
\* list asked for, in the order asked for (a message never receives the
\* content of a message whose handle list is a permutation of its own), and
\* the lookup leaves the handle list it was given in the caller's order.
C39_CachedResultIsForSameList ==
  (last.op = "decryptChunksToMessage" /\ last.tag # "no handles") =>
     /\ last.tag = "cached" => decrypted.content \in ContentsOf(encrypted.encryptedHandles)
     /\ handleStrings = [i \in DOMAIN encrypted.encryptedHandles |->
                           encrypted.encryptedHandles[i].id]


\* The moves of a temp message's status.
StatusMoves == {<<"sending", "sent">>, <<"sending", "failed">>, <<"failed", "sending">>}

\* A call is over once its promise has settled and no timer of it is armed.
CallOver(call) == call.promise # "pending" /\ ~call.timer

\* C40: a temp message moves only sending -> sent, sending -> failed or
\* failed -> sending; when the promise of a send or retry settles, no temp
\* message it created or re-armed is still sending; and when a retry is over,
\* the list has no more temp messages of that send than it had when the retry
\* was called.
C40_OptimisticSendStateMachine ==
  [][/\ \A i \in DOMAIN tempMessages, j \in DOMAIN tempMessages' :
          (tempMessages[i].id = tempMessages'[j].id
             /\ tempMessages[i].status # tempMessages'[j].status)
            => <<tempMessages[i].status, tempMessages'[j].status>> \in StatusMoves
     /\ \A k \in DOMAIN calls :
          (calls[k].promise = "pending" /\ calls'[k].promise # "pending")
            => \A j \in DOMAIN tempMessages' :
                  tempMessages'[j].id \in {calls[k].tempId, calls[k].retryOf}
                    => tempMessages'[j].status # "sending"
     /\ \A k \in DOMAIN calls :
          (calls[k].retryOf # 0 /\ ~CallOver(calls[k]) /\ CallOver(calls'[k]))
            => Cardinality(TempMessagesOf(tempMessages', calls[k].content))
                 <= calls[k].before]_vars

====
